---- MODULE Spec2Model ----
(***************************************************************************)
(* State-machine model of the ecto_libsql native resource manager:         *)
(* the four global registries (connections, transactions, prepared         *)
(* statements, cursors), the TransactionEntryGuard take/consume/drop       *)
(* protocol, cursor pagination and the transactional batch executor.       *)
(* Callers are the host's dirty-IO scheduler threads; every registry       *)
(* critical section (one Mutex lock .. unlock) is one atomic step, and a   *)
(* blocking engine call is the gap between two steps of the same caller.   *)
(***************************************************************************)
EXTENDS Integers, Sequences, FiniteSets, TLC

\* ------------------------------------------------------------------ bounds
NumProcs == 2
MaxConns == 2
MaxTrx == 1
MaxStmts == 1
MaxCursors == 1
MaxRows == 3
MaxBatches == 2
MaxBatchLen == 2
MaxTokens == 3
MaxNameLen == 3
NumCallers == 3
NumParams == 2
MaxWait == 32

Procs == 1..NumProcs
ConnIds == 1..MaxConns
TrxIds == 1..MaxTrx
StmtIds == 1..MaxStmts
CursorIds == 1..MaxCursors
\* Row sets a query can yield: every sequence of at most n one-column rows.
RowSeqs(n) == UNION {[1..k -> {"text", "blob"}] : k \in 0..n}
\* The positional parameters of a compiled statement, the values callers
\* bind to them, and the argument lists they pass.
Params == 1..NumParams
BindValues == {"a", "b"}
ArgLists == UNION {[1..k -> BindValues] : k \in 0..NumParams}
\* A compiled statement none of whose parameters is bound.
NoBindings == [i \in Params |-> "unbound"]
\* The action strings callers pass to commit_or_rollback_transaction.
ParamInputs == {"commit", "rollback", "abort"}
\* Savepoint names callers pass: a valid one and one with a leading digit.
NameInputs == {<<"s", "p", "_", "1">>, <<"1", "a">>}

VARIABLES
    connReg,     \* CONNECTION_REGISTRY: the set of registered connection ids
    connCount,   \* number of connection ids generated so far (uuid stream)
    txnReg,      \* TXN_REGISTRY: trx id -> TransactionEntry
    begun,       \* begun[t]: the conn_id given to transaction t at begin
    terminated,  \* trx ids whose guard was consumed by commit/rollback
    stmtReg,     \* STMT_REGISTRY: stmt id -> owning conn_id
    stmtCount,   \* number of statement ids generated so far
    bindings,    \* bindings[s]: the parameter bindings of compiled statement s
    cursorReg,   \* CURSOR_REGISTRY: cursor id -> CursorData
    cursorCount, \* number of cursor ids generated so far
    returned,    \* returned[k]: the row slices fetch_cursor handed to callers
    db,          \* db[c]: the statement effects visible in connection c's database
    batchCount,  \* number of batch calls started so far
    pc,          \* pc[p]: where caller p stands inside its current call
    frame,       \* frame[p]: the locals of p's current call
    result,      \* the outcome of the call that returned last
    lockOwner,   \* lockOwner[l]: the caller holding Mutex l, 0 when it is free
    call,        \* call[q]: the call caller q is in, and its next locking step
    input,       \* the argument handed to a pure function
    output       \* what the function returned for it, NoOutput before the call

vars == <<connReg, connCount, txnReg, begun, terminated, stmtReg, stmtCount,
          bindings, cursorReg, cursorCount, returned, db, batchCount, pc, frame, result,
          lockOwner, call, input, output>>

\* --------------------------------------------------------------- HashMap
\* HashMap::insert
MapInsert(m, k, v) == [x \in DOMAIN m \cup {k} |-> IF x = k THEN v ELSE m[x]]

\* HashMap::remove
MapRemove(m, k) == [x \in DOMAIN m \ {k} |-> m[x]]

EmptyMap == [x \in {} |-> 0]

\* ---------------------------------------------------------- error terms
ErrTrxNotFound == "Transaction not found"
ErrTrxOwner == "Transaction does not belong to this connection"
ErrStmtNotFound == "Statement not found"
ErrStmtOwner == "Statement does not belong to connection"
ErrCursorNotFound == "Cursor not found"
ErrCursorOwner == "Cursor does not belong to connection"
ErrInvalidConn == "Invalid connection ID"
ErrConnNotFound == "Connection not found"
ErrEngine == "engine error"
Ok == "ok"
ErrBehavior == "Invalid transaction behavior"

\* The outcome of one call, as the caller sees it: the operation, the
\* identifier the call was about (the one it was given, or the fresh one it
\* returns), the term it returned and, for a fetch, the page.  The conn_id
\* argument is known from the action that returns.
OutcomeVal(op, id, conn, res, val) == [op |-> op, id |-> id, res |-> res, val |-> val]

Outcome(op, id, conn, res) == OutcomeVal(op, id, conn, res, <<>>)

\* The locals of a call: the conn_id argument, the TransactionEntryGuard it
\* holds ({} or {g}), a TransactionEntry moved out of a guard ({} or {e}),
\* and the rows a cursor declaration has buffered.
NoBatch == [id |-> 0, n |-> 0, i |-> 0, pending |-> {}]

NoFrame ==
    [op |-> "", conn |-> 0, guard |-> {}, entry |-> {}, rows |-> <<>>, batch |-> NoBatch,
     behavior |-> "", trx_behavior |-> "", stmt |-> 0, args |-> <<>>,
     elapsed |-> 0, param |-> "", action |-> ""]

\* ----------------------------------------------------- TransactionEntryGuard
\* A guard is [trx_id, entry, consumed]; entry is {} (None) or {e} (Some(e)).

\* TransactionEntryGuard::take with the remove replaced by a lookup.
GuardTakeNoRemove(reg, trx_id, conn_id) ==
    IF trx_id \notin DOMAIN reg
    THEN [reg |-> reg, guard |-> {}, res |-> ErrTrxNotFound]
    ELSE IF reg[trx_id].conn_id # conn_id
         THEN [reg |-> reg, guard |-> {}, res |-> ErrTrxOwner]
         ELSE [reg |-> reg,
               guard |-> {[trx_id |-> trx_id, entry |-> {reg[trx_id]}, consumed |-> FALSE]},
               res |-> Ok]

\* TransactionEntryGuard::take without the re-insert on the mismatch path.
GuardTakeNoReinsert(reg, trx_id, conn_id) ==
    IF trx_id \notin DOMAIN reg
    THEN [reg |-> reg, guard |-> {}, res |-> ErrTrxNotFound]
    ELSE IF reg[trx_id].conn_id # conn_id
         THEN [reg |-> MapRemove(reg, trx_id), guard |-> {}, res |-> ErrTrxOwner]
         ELSE [reg |-> MapRemove(reg, trx_id),
               guard |-> {[trx_id |-> trx_id, entry |-> {reg[trx_id]}, consumed |-> FALSE]},
               res |-> Ok]

\* TransactionEntryGuard::take: under the registry lock, remove the entry,
\* verify ownership, re-insert on mismatch.
GuardTake(reg, trx_id, conn_id) ==
    IF trx_id \notin DOMAIN reg
    THEN [reg |-> reg, guard |-> {}, res |-> ErrTrxNotFound]
    ELSE LET entry == reg[trx_id]
             removed == MapRemove(reg, trx_id)
         IN IF entry.conn_id # conn_id
            THEN [reg |-> MapInsert(removed, trx_id, entry), guard |-> {},
                  res |-> ErrTrxOwner]
            ELSE [reg |-> removed,
                  guard |-> {[trx_id |-> trx_id, entry |-> {entry}, consumed |-> FALSE]},
                  res |-> Ok]

\* Drop without the re-insert.
GuardDropNoReinsert(reg, g) == reg

\* Drop for TransactionEntryGuard: re-insert the entry if it is still there.
GuardDrop(reg, g) ==
    IF g.entry # {}
    THEN MapInsert(reg, g.trx_id, CHOOSE e \in g.entry : TRUE)
    ELSE reg

\* consume that marks the guard but leaves the entry in it.
GuardConsumeKeepEntry(g) ==
    [guard |-> [g EXCEPT !.consumed = TRUE], entry |-> g.entry]

\* TransactionEntryGuard::consume: mark consumed, move the entry out.
GuardConsume(g) ==
    [guard |-> [g EXCEPT !.consumed = TRUE, !.entry = {}], entry |-> g.entry]

\* ------------------------------------------------------------ helpers
Idle(p) == pc[p] = "idle"

lockVars == <<lockOwner, call>>
pureVars == <<input, output>>
NoInput == <<>>
NoOutput == "none"

\* A call returns: the caller is idle again, its locals are gone.
Return(p, out) ==
    /\ pc' = [pc EXCEPT ![p] = "idle"]
    /\ frame' = [frame EXCEPT ![p] = NoFrame]
    /\ result' = out
    /\ UNCHANGED <<lockVars, pureVars>>

\* A call blocks in the engine at `at`, keeping the locals `f`.
Block(p, at, f) ==
    /\ pc' = [pc EXCEPT ![p] = at]
    /\ frame' = [frame EXCEPT ![p] = f]
    /\ UNCHANGED result
    /\ UNCHANGED <<lockVars, pureVars>>

TheGuard(p) == CHOOSE g \in frame[p].guard : TRUE

\* Callers that are between begin's connection lookup and its registry insert.
Beginning == {p \in Procs : pc[p] = "begin_engine"}

connVars == <<connReg, connCount>>
txnVars == <<txnReg, begun, terminated>>
stmtVars == <<stmtReg, stmtCount, bindings>>
cursorVars == <<cursorReg, cursorCount, returned>>
dbVars == <<db, batchCount>>

\* ----------------------------------------------------------- connections
\* connect: the engine builds the database and the connection, then the
\* handle is registered under a fresh uuid.
Connect(p) ==
    /\ Idle(p)
    /\ connCount < MaxConns
    /\ \E ok \in BOOLEAN :
         IF ok
         THEN /\ connReg' = connReg \cup {connCount + 1}
              /\ connCount' = connCount + 1
              /\ Return(p, Outcome("connect", connCount + 1, connCount + 1, Ok))
         ELSE /\ UNCHANGED connVars
              /\ Return(p, Outcome("connect", 0, 0, ErrEngine))
    /\ UNCHANGED <<txnVars, stmtVars, cursorVars, dbVars>>

\* close that empties the connection registry instead of removing one id.
CloseEveryConnection(p, id, opt) ==
    /\ Idle(p)
    /\ CASE opt = "conn_id" ->
              /\ connReg' = {}
              /\ Return(p, Outcome("close_conn", id, 0,
                                   IF id \in connReg THEN Ok ELSE ErrConnNotFound))
              /\ UNCHANGED <<connCount, txnVars, stmtVars, cursorVars, dbVars>>
         [] opt = "trx_id" ->
              /\ txnReg' = MapRemove(txnReg, id)
              /\ Return(p, Outcome("close_trx", id, 0,
                                   IF id \in DOMAIN txnReg THEN Ok ELSE ErrTrxNotFound))
              /\ UNCHANGED <<connVars, begun, terminated, stmtVars, cursorVars, dbVars>>
         [] opt = "stmt_id" ->
              /\ stmtReg' = MapRemove(stmtReg, id)
              /\ Return(p, Outcome("close_stmt", id, 0,
                                   IF id \in DOMAIN stmtReg THEN Ok ELSE ErrStmtNotFound))
              /\ UNCHANGED <<connVars, txnVars, stmtCount, bindings, cursorVars, dbVars>>
         [] opt = "cursor_id" ->
              /\ cursorReg' = MapRemove(cursorReg, id)
              /\ Return(p, Outcome("close_cursor", id, 0,
                                   IF id \in DOMAIN cursorReg THEN Ok ELSE ErrCursorNotFound))
              /\ UNCHANGED <<connVars, txnVars, stmtVars, cursorCount, returned, dbVars>>
         [] OTHER ->
              /\ Return(p, Outcome("close", id, 0, "opt is incorrect"))
              /\ UNCHANGED <<connVars, txnVars, stmtVars, cursorVars, dbVars>>

\* close(id, opt): remove the entry of the registry that opt names.
Close(p, id, opt) ==
    /\ Idle(p)
    /\ CASE opt = "conn_id" ->
              /\ connReg' = connReg \ {id}
              /\ Return(p, Outcome("close_conn", id, 0,
                                   IF id \in connReg THEN Ok ELSE ErrConnNotFound))
              /\ UNCHANGED <<connCount, txnVars, stmtVars, cursorVars, dbVars>>
         [] opt = "trx_id" ->
              /\ txnReg' = MapRemove(txnReg, id)
              /\ Return(p, Outcome("close_trx", id, 0,
                                   IF id \in DOMAIN txnReg THEN Ok ELSE ErrTrxNotFound))
              /\ UNCHANGED <<connVars, begun, terminated, stmtVars, cursorVars, dbVars>>
         [] opt = "stmt_id" ->
              /\ stmtReg' = MapRemove(stmtReg, id)
              /\ Return(p, Outcome("close_stmt", id, 0,
                                   IF id \in DOMAIN stmtReg THEN Ok ELSE ErrStmtNotFound))
              /\ UNCHANGED <<connVars, txnVars, stmtCount, bindings, cursorVars, dbVars>>
         [] opt = "cursor_id" ->
              /\ cursorReg' = MapRemove(cursorReg, id)
              /\ Return(p, Outcome("close_cursor", id, 0,
                                   IF id \in DOMAIN cursorReg THEN Ok ELSE ErrCursorNotFound))
              /\ UNCHANGED <<connVars, txnVars, stmtVars, cursorCount, returned, dbVars>>
         [] OTHER ->
              /\ Return(p, Outcome("close", id, 0, "opt is incorrect"))
              /\ UNCHANGED <<connVars, txnVars, stmtVars, cursorVars, dbVars>>

\* interrupt_connection that also unregisters the connection.
InterruptConnectionCloses(p, conn_id) ==
    /\ Idle(p)
    /\ connReg' = connReg \ {conn_id}
    /\ IF conn_id \in connReg
       THEN \E ok \in BOOLEAN :
               Return(p, Outcome("interrupt_connection", conn_id, conn_id,
                                 IF ok THEN Ok ELSE "interrupt failed"))
       ELSE Return(p, Outcome("interrupt_connection", conn_id, conn_id, ErrInvalidConn))
    /\ UNCHANGED <<connCount, txnVars, stmtVars, cursorVars, dbVars>>

\* interrupt_connection: look the connection up, lock it and ask the engine
\* to interrupt; the engine may refuse.
InterruptConnection(p, conn_id) ==
    /\ Idle(p)
    /\ IF conn_id \in connReg
       THEN \E ok \in BOOLEAN :
               Return(p, Outcome("interrupt_connection", conn_id, conn_id,
                                 IF ok THEN Ok ELSE "interrupt failed"))
       ELSE Return(p, Outcome("interrupt_connection", conn_id, conn_id, ErrInvalidConn))
    /\ UNCHANGED <<connVars, txnVars, stmtVars, cursorVars, dbVars>>

\* constants.rs: pub const DEFAULT_SYNC_TIMEOUT_SECS: u64 = 30
DEFAULT_SYNC_TIMEOUT_SECS == 30

\* connect, up to the engine: the whole of building the database, connecting
\* and pinging runs inside tokio::time::timeout(DEFAULT_SYNC_TIMEOUT_SECS).
ConnectEngine(p) ==
    /\ Idle(p)
    /\ connCount + Cardinality({q \in Procs : pc[q] = "connect_engine"}) < MaxConns
    /\ Block(p, "connect_engine", [NoFrame EXCEPT !.op = "connect"])
    /\ UNCHANGED <<connVars, txnVars, stmtVars, cursorVars, dbVars>>

\* ping, up to the engine: the registry lookup, then block_on around
\* conn_guard.query("SELECT 1") with no timeout around it.
Ping(p, conn_id) ==
    /\ Idle(p)
    /\ IF conn_id \in connReg
       THEN Block(p, "ping_engine", [NoFrame EXCEPT !.op = "ping", !.conn = conn_id])
       ELSE Return(p, Outcome("ping", conn_id, conn_id, ErrInvalidConn))
    /\ UNCHANGED <<connVars, txnVars, stmtVars, cursorVars, dbVars>>

\* One second passes and the engine has not answered.  Inside connect the
\* timer fires at the deadline, so the wait goes no further; a ping waits
\* as long as the engine takes.
EngineWait(p) ==
    /\ \/ pc[p] = "connect_engine" /\ frame[p].elapsed < DEFAULT_SYNC_TIMEOUT_SECS
       \/ pc[p] = "ping_engine" /\ frame[p].elapsed < MaxWait
    /\ Block(p, pc[p], [frame[p] EXCEPT !.elapsed = @ + 1])
    /\ UNCHANGED <<connVars, txnVars, stmtVars, cursorVars, dbVars>>

\* connect: the engine answers before the deadline.
ConnectReturn(p, ok) ==
    /\ pc[p] = "connect_engine"
    /\ frame[p].elapsed < DEFAULT_SYNC_TIMEOUT_SECS
    /\ IF ok
       THEN /\ connReg' = connReg \cup {connCount + 1}
            /\ connCount' = connCount + 1
            /\ Return(p, Outcome("connect", connCount + 1, connCount + 1, Ok))
       ELSE /\ UNCHANGED connVars
            /\ Return(p, Outcome("connect", 0, 0, ErrEngine))
    /\ UNCHANGED <<txnVars, stmtVars, cursorVars, dbVars>>

\* connect: tokio::time::timeout elapses, the connection attempt is dropped.
ConnectTimeout(p) ==
    /\ pc[p] = "connect_engine"
    /\ frame[p].elapsed = DEFAULT_SYNC_TIMEOUT_SECS
    /\ Return(p, Outcome("connect", 0, 0, "Connection timeout"))
    /\ UNCHANGED <<connVars, txnVars, stmtVars, cursorVars, dbVars>>

\* ping: the engine answers, whenever that is.
PingReturn(p, ok) ==
    /\ pc[p] = "ping_engine"
    /\ Return(p, Outcome("ping", frame[p].conn, frame[p].conn,
                         IF ok THEN Ok ELSE "Ping error"))
    /\ UNCHANGED <<connVars, txnVars, stmtVars, cursorVars, dbVars>>

\* ---------------------------------------------------------- transactions
\* begin_transaction, up to the engine call: look the connection up under
\* the connection registry's lock and release the lock.
BeginTransaction(p, c) ==
    /\ Idle(p)
    /\ Len(begun) + Cardinality(Beginning) < MaxTrx
    /\ IF c \in connReg
       THEN Block(p, "begin_engine",
                  [NoFrame EXCEPT !.conn = c, !.trx_behavior = "deferred"])
       ELSE Return(p, Outcome("begin_transaction", 0, c, ErrInvalidConn))
    /\ UNCHANGED <<connVars, txnVars, stmtVars, cursorVars, dbVars>>

\* decode::decode_transaction_behavior: Some(behaviour) for the four known
\* atoms, None for any other.
Behaviors == {"deferred", "immediate", "exclusive", "read_only"}
BehaviorInputs == Behaviors \cup {"serializable"}
DecodeTransactionBehavior(atom) == IF atom \in Behaviors THEN {atom} ELSE {}

\* begin_transaction_with_behavior, up to the engine call: decode the
\* behaviour, then proceed as begin_transaction does.
BeginTransactionWithBehavior(p, c, behavior) ==
    /\ Idle(p)
    /\ Len(begun) + Cardinality(Beginning) < MaxTrx
    /\ IF DecodeTransactionBehavior(behavior) = {}
       THEN Return(p, Outcome("begin_transaction", 0, c, ErrBehavior))
       ELSE IF c \in connReg
       THEN Block(p, "begin_engine",
                  [NoFrame EXCEPT !.conn = c, !.behavior = behavior,
                       !.trx_behavior =
                           CHOOSE b \in DecodeTransactionBehavior(behavior) : TRUE])
       ELSE Return(p, Outcome("begin_transaction", 0, c, ErrInvalidConn))
    /\ UNCHANGED <<connVars, txnVars, stmtVars, cursorVars, dbVars>>

\* Option::unwrap_or
UnwrapOr(option, default) ==
    IF option = {} THEN default ELSE CHOOSE v \in option : TRUE

\* lib.rs begin_transaction_with_behavior, up to the engine call: look the
\* connection up, then decode the behaviour with
\* unwrap_or(TransactionBehavior::Deferred).
LibBeginTransactionWithBehavior(p, c, behavior) ==
    /\ Idle(p)
    /\ Len(begun) + Cardinality(Beginning) < MaxTrx
    /\ IF c \in connReg
       THEN Block(p, "begin_engine",
                  [NoFrame EXCEPT !.conn = c, !.behavior = behavior,
                       !.trx_behavior =
                           UnwrapOr(DecodeTransactionBehavior(behavior), "deferred")])
       ELSE Return(p, Outcome("begin_transaction", 0, c, ErrInvalidConn))
    /\ UNCHANGED <<connVars, txnVars, stmtVars, cursorVars, dbVars>>

\* A begin that registers an entry whatever the engine answered.
BeginReturnAlwaysRegisters(p, ok) ==
    /\ pc[p] = "begin_engine"
    /\ txnReg' = MapInsert(txnReg, Len(begun) + 1,
                           [conn_id |-> frame[p].conn, transaction |-> Len(begun) + 1])
    /\ begun' = IF ok THEN Append(begun, frame[p].conn) ELSE begun
    /\ Return(p, Outcome("begin_transaction", IF ok THEN Len(begun) + 1 ELSE 0, frame[p].conn,
                         IF ok THEN Ok ELSE ErrEngine))
    /\ UNCHANGED <<connVars, terminated, stmtVars, cursorVars, dbVars>>

\* begin_transaction and begin_transaction_with_behavior, from the engine's
\* answer: register the transaction the engine started under a fresh uuid,
\* or report the engine's failure.  begun records, per transaction the
\* engine has started, the connection it was started on.
BeginReturn(p, ok) ==
    /\ pc[p] = "begin_engine"
    /\ IF ok
       THEN LET id == Len(begun) + 1
            IN /\ txnReg' = MapInsert(txnReg, id,
                                      [conn_id |-> frame[p].conn, transaction |-> id])
               /\ begun' = Append(begun, frame[p].conn)
               /\ Return(p, Outcome("begin_transaction", id, frame[p].conn, Ok))
       ELSE /\ UNCHANGED <<txnReg, begun>>
            /\ Return(p, Outcome("begin_transaction", 0, frame[p].conn, ErrEngine))
    /\ UNCHANGED <<connVars, terminated, stmtVars, cursorVars, dbVars>>

\* A guarded call's first step: TransactionEntryGuard::take, then either
\* block in the engine at `at` holding the guard, or return take's error.
TakeThen(p, op, at, trx_id, conn_id) ==
    LET t == GuardTake(txnReg, trx_id, conn_id)
    IN /\ txnReg' = t.reg
       /\ IF t.res = Ok
          THEN Block(p, at, [NoFrame EXCEPT !.op = op, !.conn = conn_id, !.guard = t.guard])
          ELSE Return(p, Outcome(op, trx_id, conn_id, t.res))

\* A guarded call's last step: the engine has answered, the guard goes out
\* of scope (Drop) and the call returns `res`.
DropThenReturn(p, res) ==
    /\ txnReg' = GuardDrop(txnReg, TheGuard(p))
    /\ Return(p, Outcome(frame[p].op, TheGuard(p).trx_id, frame[p].conn, res))

\* execute_with_transaction, up to the engine call.
ExecuteWithTransaction(p, trx_id, conn_id) ==
    /\ Idle(p)
    /\ TakeThen(p, "execute_with_transaction", "execute_engine", trx_id, conn_id)
    /\ UNCHANGED <<connVars, begun, terminated, stmtVars, cursorVars, dbVars>>

\* execute_with_transaction, from the engine's answer.
ExecuteReturn(p, ok) ==
    /\ pc[p] = "execute_engine"
    /\ DropThenReturn(p, IF ok THEN Ok ELSE ErrEngine)
    /\ UNCHANGED <<connVars, begun, terminated, stmtVars, cursorVars, dbVars>>

\* query_with_trx_args, up to the connection lookup.
QueryWithTrxArgs(p, trx_id, conn_id) ==
    /\ Idle(p)
    /\ TakeThen(p, "query_with_trx_args", "query_lookup", trx_id, conn_id)
    /\ UNCHANGED <<connVars, begun, terminated, stmtVars, cursorVars, dbVars>>

\* query_with_trx_args: with the guard held, look the connection up for
\* error enhancement; an unknown connection ends the call.
QueryLookup(p) ==
    /\ pc[p] = "query_lookup"
    /\ IF frame[p].conn \in connReg
       THEN /\ Block(p, "query_engine", frame[p])
            /\ UNCHANGED txnReg
       ELSE DropThenReturn(p, ErrConnNotFound)
    /\ UNCHANGED <<connVars, begun, terminated, stmtVars, cursorVars, dbVars>>

\* query_with_trx_args, from the engine's answer.
QueryReturn(p, ok) ==
    /\ pc[p] = "query_engine"
    /\ DropThenReturn(p, IF ok THEN Ok ELSE ErrEngine)
    /\ UNCHANGED <<connVars, begun, terminated, stmtVars, cursorVars, dbVars>>

\* commit_or_rollback_transaction, up to the engine call: take the guard,
\* consume it; the consumed guard goes out of scope at once.
CommitOrRollbackTransaction(p, trx_id, conn_id, param) ==
    /\ Idle(p)
    /\ LET t == GuardTake(txnReg, trx_id, conn_id)
       IN IF t.res = Ok
          THEN LET c == GuardConsume(CHOOSE g \in t.guard : TRUE)
               IN /\ txnReg' = GuardDrop(t.reg, c.guard)
                  /\ terminated' = terminated \cup {trx_id}
                  /\ Block(p, "commit_engine",
                           [NoFrame EXCEPT !.conn = conn_id, !.entry = c.entry,
                                           !.param = param,
                                           !.action = IF param = "commit"
                                                      THEN "commit" ELSE "rollback"])
          ELSE /\ txnReg' = t.reg
               /\ UNCHANGED terminated
               /\ Return(p, Outcome("commit_or_rollback_transaction", trx_id, conn_id, t.res))
    /\ UNCHANGED <<connVars, begun, stmtVars, cursorVars, dbVars>>

\* commit_or_rollback_transaction, from the engine's answer: the entry is
\* discarded whether the engine committed (rolled back) or failed.
CommitReturn(p, ok) ==
    /\ pc[p] = "commit_engine"
    /\ Return(p, Outcome("commit_or_rollback_transaction",
                         (CHOOSE e \in frame[p].entry : TRUE).transaction,
                         frame[p].conn, IF ok THEN Ok ELSE ErrEngine))
    /\ UNCHANGED <<connVars, txnVars, stmtVars, cursorVars, dbVars>>

\* handle_status_transaction that knows the transactions begun and not
\* terminated, in use or not.
HandleStatusTransactionSeesInUse(p, trx_id) ==
    /\ Idle(p)
    /\ Return(p, Outcome("handle_status_transaction", trx_id, 0,
                         IF trx_id \in DOMAIN begun \ terminated THEN Ok ELSE ErrTrxNotFound))
    /\ UNCHANGED <<connVars, txnVars, stmtVars, cursorVars, dbVars>>

\* handle_status_transaction: a lookup without removal.
HandleStatusTransaction(p, trx_id) ==
    /\ Idle(p)
    /\ Return(p, Outcome("handle_status_transaction", trx_id, 0,
                         IF trx_id \in DOMAIN txnReg THEN Ok ELSE ErrTrxNotFound))
    /\ UNCHANGED <<connVars, txnVars, stmtVars, cursorVars, dbVars>>

\* ------------------------------------------------------------- savepoints
\* The characters of the model: ASCII letters, ASCII digits, and underscore,
\* space, hyphen and a non-ASCII letter.
Letters == {"s", "p", "a", "b", "c", "o", "n", "e", "Z"}
Digits == {"0", "1"}
Chars == Letters \cup Digits \cup {"_", " ", "-", "e-acute"}

ErrSavepointName == "Invalid savepoint name: must be a valid SQL identifier"

\* validate_savepoint_name without the test of the first character.
ValidateSavepointNameAnyFirst(name) ==
    ~ \/ Len(name) = 0
      \/ ~ \A i \in 1..Len(name) : name[i] \in Letters \cup Digits \cup {"_"}

\* decode::validate_savepoint_name
ValidateSavepointName(name) ==
    ~ \/ Len(name) = 0
      \/ ~ \A i \in 1..Len(name) : name[i] \in Letters \cup Digits \cup {"_"}
      \/ (Len(name) = 0 \/ name[1] \in Digits)

\* savepoint, release_savepoint and rollback_to_savepoint (the three differ
\* in the SQL verb only), up to the engine call: validate the name, then
\* take the guard.
Savepoint(p, conn_id, trx_id, name) ==
    /\ Idle(p)
    /\ IF ValidateSavepointName(name)
       THEN TakeThen(p, "savepoint", "savepoint_engine", trx_id, conn_id)
       ELSE /\ UNCHANGED txnReg
            /\ Return(p, Outcome("savepoint", trx_id, conn_id, ErrSavepointName))
    /\ UNCHANGED <<connVars, begun, terminated, stmtVars, cursorVars, dbVars>>

\* release_savepoint, up to the engine call.
ReleaseSavepoint(p, conn_id, trx_id, name) ==
    /\ Idle(p)
    /\ IF ValidateSavepointName(name)
       THEN TakeThen(p, "release_savepoint", "savepoint_engine", trx_id, conn_id)
       ELSE /\ UNCHANGED txnReg
            /\ Return(p, Outcome("release_savepoint", trx_id, conn_id, ErrSavepointName))
    /\ UNCHANGED <<connVars, begun, terminated, stmtVars, cursorVars, dbVars>>

\* rollback_to_savepoint, up to the engine call.
RollbackToSavepoint(p, conn_id, trx_id, name) ==
    /\ Idle(p)
    /\ IF ValidateSavepointName(name)
       THEN TakeThen(p, "rollback_to_savepoint", "savepoint_engine", trx_id, conn_id)
       ELSE /\ UNCHANGED txnReg
            /\ Return(p, Outcome("rollback_to_savepoint", trx_id, conn_id, ErrSavepointName))
    /\ UNCHANGED <<connVars, begun, terminated, stmtVars, cursorVars, dbVars>>

\* The savepoint operations, from the engine's answer.
SavepointReturn(p, ok) ==
    /\ pc[p] = "savepoint_engine"
    /\ DropThenReturn(p, IF ok THEN Ok ELSE ErrEngine)
    /\ UNCHANGED <<connVars, begun, terminated, stmtVars, cursorVars, dbVars>>

\* ------------------------------------------------------------- statements
Preparing == {p \in Procs : pc[p] = "prepare_engine"}

\* prepare_statement, up to the engine call.
PrepareStatement(p, c) ==
    /\ Idle(p)
    /\ stmtCount + Cardinality(Preparing) < MaxStmts
    /\ IF c \in connReg
       THEN Block(p, "prepare_engine", [NoFrame EXCEPT !.conn = c])
       ELSE Return(p, Outcome("prepare_statement", 0, c, ErrInvalidConn))
    /\ UNCHANGED <<connVars, txnVars, stmtVars, cursorVars, dbVars>>

\* prepare_statement, from the engine's answer.
PrepareReturn(p, ok) ==
    /\ pc[p] = "prepare_engine"
    /\ IF ok
       THEN /\ stmtReg' = MapInsert(stmtReg, stmtCount + 1, frame[p].conn)
            /\ stmtCount' = stmtCount + 1
            /\ UNCHANGED bindings
            /\ Return(p, Outcome("prepare_statement", stmtCount + 1, frame[p].conn, Ok))
       ELSE /\ UNCHANGED stmtVars
            /\ Return(p, Outcome("prepare_statement", 0, frame[p].conn, ErrEngine))
    /\ UNCHANGED <<connVars, txnVars, cursorVars, dbVars>>

\* The registry checks shared by query_prepared and execute_prepared, made
\* with both the connection and the statement registry locked: the
\* connection must be registered, the statement must be registered, and
\* decode::verify_statement_ownership must pass.
StmtCheck(conn_id, stmt_id) ==
    IF conn_id \notin connReg THEN ErrInvalidConn
    ELSE IF stmt_id \notin DOMAIN stmtReg THEN ErrStmtNotFound
    ELSE IF stmtReg[stmt_id] # conn_id THEN ErrStmtOwner
    ELSE Ok

\* query_prepared: the checks, then reset and run the cached statement.
QueryPrepared(p, conn_id, stmt_id) ==
    /\ Idle(p)
    /\ \E ok \in BOOLEAN :
         Return(p, Outcome("query_prepared", stmt_id, conn_id,
                           IF StmtCheck(conn_id, stmt_id) # Ok
                           THEN StmtCheck(conn_id, stmt_id)
                           ELSE IF ok THEN Ok ELSE ErrEngine))
    /\ UNCHANGED <<connVars, txnVars, stmtVars, cursorVars, dbVars>>

\* execute_prepared: the checks, then reset and run the cached statement.
ExecutePrepared(p, conn_id, stmt_id) ==
    /\ Idle(p)
    /\ \E ok \in BOOLEAN :
         Return(p, Outcome("execute_prepared", stmt_id, conn_id,
                           IF StmtCheck(conn_id, stmt_id) # Ok
                           THEN StmtCheck(conn_id, stmt_id)
                           ELSE IF ok THEN Ok ELSE ErrEngine))
    /\ UNCHANGED <<connVars, txnVars, stmtVars, cursorVars, dbVars>>

\* Statement::reset left out: the bindings stay.
ResetKeepsBindings(stmt) == stmt

\* Statement::reset as the call sites rely on it: "Reset clears any previous
\* bindings".
Reset(stmt) == NoBindings

\* Statement::query / Statement::execute with a positional argument list:
\* argument i is bound to parameter i; a parameter past the list keeps
\* what it had.
Bind(stmt, args) == [i \in Params |-> IF i <= Len(args) THEN args[i] ELSE stmt[i]]

\* The callers holding the Mutex of compiled statement s.
StmtGuard(s) == {p \in Procs : pc[p] \in {"stmt_reset", "stmt_engine"} /\ frame[p].stmt = s}

\* query_prepared / execute_prepared with their argument list, up to
\* block_on: the registry checks, the clone of the statement's Arc and the
\* decoding of args.
PreparedArgs(p, op, conn_id, stmt_id, args) ==
    /\ Idle(p)
    /\ IF StmtCheck(conn_id, stmt_id) # Ok
       THEN Return(p, Outcome(op, stmt_id, conn_id, StmtCheck(conn_id, stmt_id)))
       ELSE Block(p, "stmt_lock", [NoFrame EXCEPT !.op = op, !.conn = conn_id,
                                                  !.stmt = stmt_id, !.args = args])
    /\ UNCHANGED <<connVars, txnVars, stmtVars, cursorVars, dbVars>>

QueryPreparedArgs(p, conn_id, stmt_id, args) ==
    PreparedArgs(p, "query_prepared", conn_id, stmt_id, args)

ExecutePreparedArgs(p, conn_id, stmt_id, args) ==
    PreparedArgs(p, "execute_prepared", conn_id, stmt_id, args)

\* Inside block_on: safe_lock_arc on the statement, then stmt_guard.reset().
StmtReset(p) ==
    /\ pc[p] = "stmt_lock"
    /\ StmtGuard(frame[p].stmt) = {}
    /\ bindings' = [bindings EXCEPT ![frame[p].stmt] = Reset(@)]
    /\ Block(p, "stmt_reset", frame[p])
    /\ UNCHANGED <<connVars, txnVars, stmtReg, stmtCount, cursorVars, dbVars>>

\* stmt_guard.query(decoded_args) / stmt_guard.execute(decoded_args): the
\* arguments are bound and the statement starts to run.
StmtRun(p) ==
    /\ pc[p] = "stmt_reset"
    /\ bindings' = [bindings EXCEPT ![frame[p].stmt] = Bind(@, frame[p].args)]
    /\ Block(p, "stmt_engine", frame[p])
    /\ UNCHANGED <<connVars, txnVars, stmtReg, stmtCount, cursorVars, dbVars>>

\* The engine answers, the statement's guard is dropped and the call
\* returns.  What a statement computes depends on its bindings: the answer
\* is modelled by the bindings it ran with.
StmtReturn(p, ok) ==
    /\ pc[p] = "stmt_engine"
    /\ IF ok
       THEN Return(p, OutcomeVal(frame[p].op, frame[p].stmt, frame[p].conn, Ok,
                                 bindings[frame[p].stmt]))
       ELSE Return(p, Outcome(frame[p].op, frame[p].stmt, frame[p].conn, ErrEngine))
    /\ UNCHANGED <<connVars, txnVars, stmtVars, cursorVars, dbVars>>

\* ---------------------------------------------------------------- cursors
\* libsql::Value kinds a buffered row can hold; a row is modelled by the
\* value of its one column.
Values == {"text", "blob"}

\* The column list a declaration buffers: filled from the first row, so it
\* stays empty when the query yields no row.
ColumnsOf(rows) == IF Len(rows) = 0 THEN <<>> ELSE <<"col0">>

\* CursorData that records no owning connection.
NewCursorUnowned(conn_id, rows) ==
    [conn_id |-> 0, columns |-> ColumnsOf(rows), rows |-> rows, position |-> 0]

\* CursorData as constructed by the declarations: position 0.
NewCursor(conn_id, rows) ==
    [conn_id |-> conn_id, columns |-> ColumnsOf(rows), rows |-> rows, position |-> 0]

Declaring == {p \in Procs : pc[p] \in {"declare_engine", "cursor_trx_engine", "cursor_insert"}}

\* declare_cursor, up to the engine call.
DeclareCursor(p, conn_id) ==
    /\ Idle(p)
    /\ cursorCount + Cardinality(Declaring) < MaxCursors
    /\ IF conn_id \in connReg
       THEN Block(p, "declare_engine", [NoFrame EXCEPT !.op = "declare_cursor", !.conn = conn_id])
       ELSE Return(p, Outcome("declare_cursor", 0, conn_id, ErrInvalidConn))
    /\ UNCHANGED <<connVars, txnVars, stmtVars, cursorVars, dbVars>>

\* declare_cursor_with_context, up to the engine call.
DeclareCursorWithContext(p, conn_id, id, id_type) ==
    /\ Idle(p)
    /\ cursorCount + Cardinality(Declaring) < MaxCursors
    /\ CASE id_type = "transaction" ->
              TakeThen(p, "declare_cursor_with_context", "cursor_trx_engine", id, conn_id)
         [] id_type = "connection" ->
              /\ UNCHANGED txnReg
              /\ IF conn_id # id
                 THEN Return(p, Outcome("declare_cursor_with_context", id, conn_id,
                                        "Connection ID mismatch: provided conn_id does not match cursor connection ID"))
                 ELSE IF id \notin connReg
                 THEN Return(p, Outcome("declare_cursor_with_context", id, conn_id,
                                        ErrConnNotFound))
                 ELSE Block(p, "declare_engine",
                            [NoFrame EXCEPT !.op = "declare_cursor_with_context", !.conn = id])
         [] OTHER ->
              /\ UNCHANGED txnReg
              /\ Return(p, Outcome("declare_cursor_with_context", id, conn_id,
                                   "Invalid id_type for cursor"))
    /\ UNCHANGED <<connVars, begun, terminated, stmtVars, cursorVars, dbVars>>

\* The registry insert that ends every declaration.
InsertCursor(p, conn_id, rows) ==
    /\ cursorReg' = MapInsert(cursorReg, cursorCount + 1, NewCursor(conn_id, rows))
    /\ cursorCount' = cursorCount + 1
    /\ returned' = MapInsert(returned, cursorCount + 1, <<>>)
    /\ Return(p, Outcome(frame[p].op, cursorCount + 1, conn_id, Ok))

\* A declaration against a connection, from the engine's answer: buffer
\* every row and register the cursor, or report the failed query.
DeclareReturn(p, ok, rows) ==
    /\ pc[p] = "declare_engine"
    /\ IF ok
       THEN InsertCursor(p, frame[p].conn, rows)
       ELSE /\ UNCHANGED cursorVars
            /\ Return(p, Outcome(frame[p].op, 0, frame[p].conn, ErrEngine))
    /\ UNCHANGED <<connVars, txnVars, stmtVars, dbVars>>

\* A declaration against a transaction, from the engine's answer: the guard
\* goes out of scope (Drop) before the cursor registry is touched.
CursorTrxReturn(p, ok, rows) ==
    /\ pc[p] = "cursor_trx_engine"
    /\ IF ok
       THEN /\ txnReg' = GuardDrop(txnReg, TheGuard(p))
            /\ Block(p, "cursor_insert", [frame[p] EXCEPT !.guard = {}, !.rows = rows])
       ELSE DropThenReturn(p, ErrEngine)
    /\ UNCHANGED <<connVars, begun, terminated, stmtVars, cursorVars, dbVars>>

\* A declaration against a transaction: register the cursor.
CursorInsert(p) ==
    /\ pc[p] = "cursor_insert"
    /\ InsertCursor(p, frame[p].conn, frame[p].rows)
    /\ UNCHANGED <<connVars, txnVars, stmtVars, dbVars>>

\* usize::saturating_sub
SaturatingSub(a, b) == IF a >= b THEN a - b ELSE 0

Min(a, b) == IF a <= b THEN a ELSE b

\* fetch_cursor: remaining.min(max_rows)
FetchCount(cursor, max_rows) ==
    Min(SaturatingSub(Len(cursor.rows), cursor.position), max_rows)

\* cursor.position set to the slice length instead of the slice end.
NewPositionCount(cursor, end_pos) == end_pos - cursor.position

\* fetch_cursor: cursor.position = end_pos
NewPosition(cursor, end_pos) == end_pos

\* fetch_cursor's conversion of the fetched rows to terms: a Blob needs an
\* OwnedBinary, whose allocation can fail.
EncodeFails(rows, alloc_ok) == ~alloc_ok /\ \E i \in 1..Len(rows) : rows[i] = "blob"

\* A fetch that hands back no column names when it has no rows.
FetchedNamesWithRows(columns, rows) ==
    [columns |-> IF Len(rows) = 0 THEN <<>> ELSE columns, rows |-> rows, count |-> Len(rows)]

\* What a successful fetch hands back: (columns, rows, count).
Fetched(columns, rows) == [columns |-> columns, rows |-> rows, count |-> Len(rows)]

\* fetch_cursor: the whole call runs with the cursor registry locked.
FetchCursor(p, conn_id, cursor_id, max_rows, alloc_ok) ==
    /\ Idle(p)
    /\ IF cursor_id \notin DOMAIN cursorReg
       THEN /\ UNCHANGED <<cursorReg, returned>>
            /\ Return(p, Outcome("fetch_cursor", cursor_id, conn_id, ErrCursorNotFound))
       ELSE LET cursor == cursorReg[cursor_id]
                fetch_count == FetchCount(cursor, max_rows)
                end_pos == cursor.position + fetch_count
                fetched_rows == SubSeq(cursor.rows, cursor.position + 1, end_pos)
            IN IF cursor.conn_id # conn_id
               THEN /\ UNCHANGED <<cursorReg, returned>>
                    /\ Return(p, Outcome("fetch_cursor", cursor_id, conn_id, ErrCursorOwner))
               ELSE IF fetch_count = 0
               THEN /\ UNCHANGED <<cursorReg, returned>>
                    /\ Return(p, OutcomeVal("fetch_cursor", cursor_id, conn_id, Ok,
                                            Fetched(cursor.columns, <<>>)))
               ELSE /\ cursorReg' = [cursorReg EXCEPT ![cursor_id].position =
                                        NewPosition(cursor, end_pos)]
                    /\ IF EncodeFails(fetched_rows, alloc_ok)
                       THEN /\ UNCHANGED returned
                            /\ Return(p, Outcome("fetch_cursor", cursor_id, conn_id,
                                                 "Failed to allocate binary for blob data"))
                       ELSE /\ returned' = [returned EXCEPT ![cursor_id] =
                                               Append(@, [start |-> cursor.position,
                                                          rows |-> fetched_rows])]
                            /\ Return(p, OutcomeVal("fetch_cursor", cursor_id, conn_id, Ok,
                                                    Fetched(cursor.columns, fetched_rows)))
    /\ UNCHANGED <<connVars, txnVars, stmtVars, cursorCount, dbVars>>

\* ---------------------------------------------------------------- batches
\* The engine's transaction handle, as batch.rs relies on it: statements run
\* on the handle stay pending, commit makes the pending effects part of the
\* database, rollback discards them, and so does a handle that goes out of
\* scope without a successful commit.  An effect is <<batch, index, size>>.
RollbackKeepsEffects(committed, pending) == committed \cup pending

\* trx.rollback(), and the handle dropped uncommitted.
Rollback(committed, pending) == committed

\* trx.commit()
Commit(committed, pending) == committed \cup pending

Effect(b, i) == <<b.id, i, b.n>>

\* execute_transactional_batch, up to the engine's begin: look the
\* connection up under the connection registry's lock, release the lock and
\* decode the n statements.
ExecuteTransactionalBatch(p, conn_id, n) ==
    /\ Idle(p)
    /\ batchCount < MaxBatches
    /\ IF conn_id \in connReg
       THEN /\ batchCount' = batchCount + 1
            /\ Block(p, "tbatch_begin",
                     [NoFrame EXCEPT !.conn = conn_id,
                                     !.batch = [id |-> batchCount + 1, n |-> n, i |-> 0,
                                                pending |-> {}]])
       ELSE /\ UNCHANGED batchCount
            /\ Return(p, Outcome("execute_transactional_batch", 0, conn_id, ErrInvalidConn))
    /\ UNCHANGED <<connVars, txnVars, stmtVars, cursorVars, db>>

\* conn_guard.transaction(): the engine starts the transaction or refuses.
TBatchBegin(p, ok) ==
    /\ pc[p] = "tbatch_begin"
    /\ IF ok
       THEN Block(p, "tbatch_stmt", frame[p])
       ELSE Return(p, Outcome("execute_transactional_batch", frame[p].batch.id,
                              frame[p].conn, "Begin transaction failed"))
    /\ UNCHANGED <<connVars, txnVars, stmtVars, cursorVars, dbVars>>

\* One turn of the statement loop.  The statement runs and its rows are
\* collected ("ok"); or trx.query fails and the batch rolls back, ignoring
\* what rollback answers: it succeeds ("query_err") or it fails too and the
\* handle is dropped ("rollback_err"); or the statement ran but collecting
\* its rows fails and `?` leaves the call, dropping the handle
\* ("collect_err").
TBatchStmt(p, outcome) ==
    /\ pc[p] = "tbatch_stmt"
    /\ frame[p].batch.i < frame[p].batch.n
    /\ LET b == frame[p].batch
           c == frame[p].conn
           ran == b.pending \cup {Effect(b, b.i + 1)}
       IN CASE outcome = "ok" ->
                 /\ Block(p, "tbatch_stmt",
                          [frame[p] EXCEPT !.batch.i = b.i + 1, !.batch.pending = ran])
                 /\ UNCHANGED db
            [] outcome \in {"query_err", "rollback_err"} ->
                 /\ db' = [db EXCEPT ![c] = Rollback(@, b.pending)]
                 /\ Return(p, Outcome("execute_transactional_batch", b.id, c,
                                      "Batch statement error"))
            [] outcome = "collect_err" ->
                 /\ db' = [db EXCEPT ![c] = Rollback(@, ran)]
                 /\ Return(p, Outcome("execute_transactional_batch", b.id, c,
                                      "collect_rows error"))
    /\ UNCHANGED <<connVars, txnVars, stmtVars, cursorVars, batchCount>>

\* After the last statement: trx.commit(), whose failure ends the call with
\* the handle consumed.
TBatchCommit(p, ok) ==
    /\ pc[p] = "tbatch_stmt"
    /\ frame[p].batch.i = frame[p].batch.n
    /\ LET b == frame[p].batch
           c == frame[p].conn
       IN IF ok
          THEN /\ db' = [db EXCEPT ![c] = Commit(@, b.pending)]
               /\ Return(p, OutcomeVal("execute_transactional_batch", b.id, c, Ok,
                                       [i \in 1..b.n |-> "rows"]))
          ELSE /\ db' = [db EXCEPT ![c] = Rollback(@, b.pending)]
               /\ Return(p, Outcome("execute_transactional_batch", b.id, c, "Commit failed"))
    /\ UNCHANGED <<connVars, txnVars, stmtVars, cursorVars, batchCount>>

\* A statement run on the connection itself takes effect at once: no engine
\* transaction wraps it.
Autocommit(committed, effect) == committed \cup {effect}

\* execute_batch, up to the first statement: look the connection up under
\* the connection registry's lock, release the lock and decode the n
\* statements.
ExecuteBatch(p, conn_id, n) ==
    /\ Idle(p)
    /\ batchCount < MaxBatches
    /\ IF conn_id \in connReg
       THEN /\ batchCount' = batchCount + 1
            /\ Block(p, "batch_stmt",
                     [NoFrame EXCEPT !.conn = conn_id,
                                     !.batch = [id |-> batchCount + 1, n |-> n, i |-> 0,
                                                pending |-> {}]])
       ELSE /\ UNCHANGED batchCount
            /\ Return(p, Outcome("execute_batch", 0, conn_id, ErrInvalidConn))
    /\ UNCHANGED <<connVars, txnVars, stmtVars, cursorVars, db>>

\* The statement loop of execute_batch going on to the next statement after
\* a failed one.
BatchStmtGoesOn(p, outcome) ==
    /\ pc[p] = "batch_stmt"
    /\ frame[p].batch.i < frame[p].batch.n
    /\ LET b == frame[p].batch
           c == frame[p].conn
       IN /\ db' = IF outcome = "query_err" THEN db
                   ELSE [db EXCEPT ![c] = Autocommit(@, Effect(b, b.i + 1))]
          /\ Block(p, "batch_stmt", [frame[p] EXCEPT !.batch.i = b.i + 1])
    /\ UNCHANGED <<connVars, txnVars, stmtVars, cursorVars, batchCount>>

\* One turn of the statement loop of execute_batch.  The statement runs and
\* its rows are collected ("ok"); or conn_guard.query fails and the call
\* returns the error ("query_err"); or the statement ran but collecting its
\* rows fails and `?` leaves the call ("collect_err").
BatchStmt(p, outcome) ==
    /\ pc[p] = "batch_stmt"
    /\ frame[p].batch.i < frame[p].batch.n
    /\ LET b == frame[p].batch
           c == frame[p].conn
           ran == [db EXCEPT ![c] = Autocommit(@, Effect(b, b.i + 1))]
       IN CASE outcome = "ok" ->
                 /\ db' = ran
                 /\ Block(p, "batch_stmt", [frame[p] EXCEPT !.batch.i = b.i + 1])
            [] outcome = "query_err" ->
                 /\ UNCHANGED db
                 /\ Return(p, Outcome("execute_batch", b.id, c, "Batch statement error"))
            [] outcome = "collect_err" ->
                 /\ db' = ran
                 /\ Return(p, Outcome("execute_batch", b.id, c, "collect_rows error"))
    /\ UNCHANGED <<connVars, txnVars, stmtVars, cursorVars, batchCount>>

\* After the last statement: Ok(all_results).
BatchDone(p) ==
    /\ pc[p] = "batch_stmt"
    /\ frame[p].batch.i = frame[p].batch.n
    /\ Return(p, OutcomeVal("execute_batch", frame[p].batch.id, frame[p].conn, Ok,
                            [i \in 1..frame[p].batch.n |-> "rows"]))
    /\ UNCHANGED <<connVars, txnVars, stmtVars, cursorVars, dbVars>>

\* ------------------------------------------------------------------ locks
\* Every registry is a Mutex<HashMap>; a connection is an
\* Arc<Mutex<LibSQLConn>> whose field `client` is an Arc<Mutex<Connection>>;
\* a prepared statement is an Arc<Mutex<Statement>>.  The functions below
\* list, per NIF, the order in which its code locks and unlocks them and
\* where it waits for the engine (TOKIO_RUNTIME.block_on).
Callers == 1..NumCallers

CONNECTION_REGISTRY == <<"CONNECTION_REGISTRY", 0>>
TXN_REGISTRY == <<"TXN_REGISTRY", 0>>
STMT_REGISTRY == <<"STMT_REGISTRY", 0>>
CURSOR_REGISTRY == <<"CURSOR_REGISTRY", 0>>
RegistryLocks ==
    {CONNECTION_REGISTRY, TXN_REGISTRY, STMT_REGISTRY, CURSOR_REGISTRY}

\* The Mutex around LibSQLConn (the value stored in CONNECTION_REGISTRY).
ClientLock(c) == <<"client", c>>
\* The Mutex around the engine's Connection (LibSQLConn.client).
ConnLock(c) == <<"conn", c>>
\* The Mutex around a cached Statement.
StmtLock(s) == <<"stmt", s>>

Locks ==
    RegistryLocks \cup {ClientLock(c) : c \in ConnIds}
                  \cup {ConnLock(c) : c \in ConnIds}
                  \cup {StmtLock(s) : s \in StmtIds}

\* safe_lock / safe_lock_arc: Mutex::lock, blocking until the lock is free.
SafeLock(l) == [a |-> "lock", l |-> l]
\* The MutexGuard goes out of scope or is dropped.
Unlock(l) == [a |-> "unlock", l |-> l]
\* A guard that lives for one lookup or insert, nothing else locked inside.
Section(l) == [a |-> "section", l |-> l]
\* TOKIO_RUNTIME.block_on(...) waiting for the engine.
Engine == [a |-> "engine", l |-> <<"engine", 0>>]

\* Connection::interrupt, a call that returns at once.
Interrupt == [a |-> "interrupt", l |-> <<"engine", 0>>]

\* TransactionEntryGuard::take and its Drop lock TXN_REGISTRY alone.
GuardTakeLocks == <<Section(TXN_REGISTRY)>>
GuardDropLocks == <<Section(TXN_REGISTRY)>>

\* transaction.rs begin_transaction / begin_transaction_with_behavior.
BeginTransactionLocks(c) ==
    << Section(CONNECTION_REGISTRY), Section(ClientLock(c)),
       SafeLock(ConnLock(c)), Engine, Unlock(ConnLock(c)),
       Section(TXN_REGISTRY) >>

\* lib.rs begin_transaction: conn_map, conn_guard and client_guard live to
\* the end of the function, around block_on and the TXN_REGISTRY insert.
LibBeginTransactionLocks(c) ==
    << SafeLock(CONNECTION_REGISTRY), SafeLock(ClientLock(c)),
       SafeLock(ConnLock(c)), Engine, Section(TXN_REGISTRY),
       Unlock(ConnLock(c)), Unlock(ClientLock(c)),
       Unlock(CONNECTION_REGISTRY) >>

\* transaction.rs execute_with_transaction: take, engine, drop.
ExecuteWithTransactionLocks ==
    GuardTakeLocks \o <<Engine>> \o GuardDropLocks

\* transaction.rs query_with_trx_args: take; the client lock is taken while
\* conn_map is alive; the engine; on an engine error the connection lock for
\* enhance_constraint_error; drop.
QueryWithTrxArgsLocks(c, failed) ==
    GuardTakeLocks
    \o << SafeLock(CONNECTION_REGISTRY), SafeLock(ClientLock(c)),
          Unlock(ClientLock(c)), Unlock(CONNECTION_REGISTRY), Engine >>
    \o (IF failed
        THEN <<SafeLock(ConnLock(c)), Engine, Unlock(ConnLock(c))>>
        ELSE <<>>)
    \o GuardDropLocks

\* query.rs query_args.
QueryArgsLocks(c) ==
    << Section(CONNECTION_REGISTRY), Section(ClientLock(c)),
       SafeLock(ConnLock(c)), Engine, Unlock(ConnLock(c)) >>

\* statement.rs query_prepared: stmt_registry is locked while conn_map is
\* alive, both are dropped before block_on, which locks the statement.
QueryPreparedLocks(s) ==
    << SafeLock(CONNECTION_REGISTRY), SafeLock(STMT_REGISTRY),
       Unlock(STMT_REGISTRY), Unlock(CONNECTION_REGISTRY),
       SafeLock(StmtLock(s)), Engine, Unlock(StmtLock(s)) >>

\* statement.rs execute_prepared, locking STMT_REGISTRY before
\* CONNECTION_REGISTRY.
ExecutePreparedLocksStmtFirst(s) ==
    << SafeLock(STMT_REGISTRY), SafeLock(CONNECTION_REGISTRY),
       Unlock(CONNECTION_REGISTRY), Unlock(STMT_REGISTRY),
       SafeLock(StmtLock(s)), Engine, Unlock(StmtLock(s)) >>

\* statement.rs execute_prepared: the same order as query_prepared.
ExecutePreparedLocks(s) ==
    << SafeLock(CONNECTION_REGISTRY), SafeLock(STMT_REGISTRY),
       Unlock(STMT_REGISTRY), Unlock(CONNECTION_REGISTRY),
       SafeLock(StmtLock(s)), Engine, Unlock(StmtLock(s)) >>

\* cursor.rs declare_cursor: client_guard and conn_guard are taken inside
\* block_on and live until the rows are collected.
DeclareCursorLocks(c) ==
    << Section(CONNECTION_REGISTRY), SafeLock(ClientLock(c)),
       SafeLock(ConnLock(c)), Engine, Unlock(ConnLock(c)),
       Unlock(ClientLock(c)), Section(CURSOR_REGISTRY) >>

\* cursor.rs declare_cursor_with_context, by id_type.
DeclareCursorWithContextLocks(c, id_type) ==
    IF id_type = "transaction"
    THEN GuardTakeLocks \o <<Engine>> \o GuardDropLocks
         \o <<Section(CURSOR_REGISTRY)>>
    ELSE << Section(CONNECTION_REGISTRY), Section(ClientLock(c)),
            SafeLock(ConnLock(c)), Engine, Unlock(ConnLock(c)),
            Section(CURSOR_REGISTRY) >>

\* The NIFs that work on a transaction, and those that work on a
\* connection directly.
TransactionOps ==
    {"execute_with_transaction", "query_with_trx_args",
     "query_with_trx_args_failed", "declare_cursor_with_context_transaction"}
ConnectionOps ==
    {"begin_transaction", "lib_begin_transaction", "query_args",
     "declare_cursor", "declare_cursor_with_context_connection"}
StatementOps == {"query_prepared", "execute_prepared"}
LockOps == TransactionOps \cup ConnectionOps \cup StatementOps
ConvoyOps == {"declare_cursor", "query_with_trx_args", "query_prepared"}
InterruptOps == {"query_args", "interrupt_connection"}

\* interrupt_connection: the registry lookup, then the client guard and the
\* connection guard, both held over Connection::interrupt.
InterruptConnectionLocks(c) ==
    << Section(CONNECTION_REGISTRY), SafeLock(ClientLock(c)), SafeLock(ConnLock(c)),
       Interrupt, Unlock(ConnLock(c)), Unlock(ClientLock(c)) >>

LockProgram(op, c, s) ==
    CASE op = "begin_transaction" -> BeginTransactionLocks(c)
      [] op = "lib_begin_transaction" -> LibBeginTransactionLocks(c)
      [] op = "execute_with_transaction" -> ExecuteWithTransactionLocks
      [] op = "query_with_trx_args" -> QueryWithTrxArgsLocks(c, FALSE)
      [] op = "query_with_trx_args_failed" -> QueryWithTrxArgsLocks(c, TRUE)
      [] op = "query_args" -> QueryArgsLocks(c)
      [] op = "query_prepared" -> QueryPreparedLocks(s)
      [] op = "execute_prepared" -> ExecutePreparedLocks(s)
      [] op = "declare_cursor" -> DeclareCursorLocks(c)
      [] op = "declare_cursor_with_context_transaction" ->
            DeclareCursorWithContextLocks(c, "transaction")
      [] op = "declare_cursor_with_context_connection" ->
            DeclareCursorWithContextLocks(c, "connection")
      [] op = "interrupt_connection" -> InterruptConnectionLocks(c)

NoCall == [op |-> "none", c |-> 0, s |-> 0, i |-> 0]
InCall(q) == call[q].op # "none"
NextStep(q) == LockProgram(call[q].op, call[q].c, call[q].s)[call[q].i]

dataVars == <<connReg, connCount, txnReg, begun, terminated, stmtReg,
              stmtCount, bindings, cursorReg, cursorCount, returned, db, batchCount,
              pc, frame, result>>

\* The caller moves past its step; the call returns after the last one.
Advance(q) ==
    call' = [call EXCEPT ![q] =
                IF call[q].i = Len(LockProgram(call[q].op, call[q].c, call[q].s))
                THEN NoCall
                ELSE [call[q] EXCEPT !.i = call[q].i + 1]]

\* A scheduler thread enters a NIF.
LockCall(q, op, c, s) ==
    /\ ~InCall(q)
    /\ call' = [call EXCEPT ![q] = [op |-> op, c |-> c, s |-> s, i |-> 1]]
    /\ UNCHANGED <<lockOwner, dataVars, pureVars>>

\* Mutex::lock returns once the lock is free.
Acquire(q) ==
    /\ InCall(q)
    /\ NextStep(q).a = "lock"
    /\ lockOwner[NextStep(q).l] = 0
    /\ lockOwner' = [lockOwner EXCEPT ![NextStep(q).l] = q]
    /\ Advance(q)
    /\ UNCHANGED <<dataVars, pureVars>>

Release(q) ==
    /\ InCall(q)
    /\ NextStep(q).a = "unlock"
    /\ lockOwner[NextStep(q).l] = q
    /\ lockOwner' = [lockOwner EXCEPT ![NextStep(q).l] = 0]
    /\ Advance(q)
    /\ UNCHANGED <<dataVars, pureVars>>

\* Lock, look up or insert, unlock.
CriticalSection(q) ==
    /\ InCall(q)
    /\ NextStep(q).a = "section"
    /\ lockOwner[NextStep(q).l] = 0
    /\ Advance(q)
    /\ UNCHANGED <<lockOwner, dataVars, pureVars>>

\* block_on returns.
EngineReturn(q) ==
    /\ InCall(q)
    /\ NextStep(q).a = "engine"
    /\ Advance(q)
    /\ UNCHANGED <<lockOwner, dataVars, pureVars>>

\* Connection::interrupt hands the request to the engine and returns.
Deliver(q) ==
    /\ InCall(q)
    /\ NextStep(q).a = "interrupt"
    /\ Advance(q)
    /\ UNCHANGED <<lockOwner, dataVars, pureVars>>

\* Where a caller stands.
InEngine(q) == InCall(q) /\ NextStep(q).a = "engine"
Waiting(q) ==
    /\ InCall(q)
    /\ NextStep(q).a \in {"lock", "section"}
    /\ lockOwner[NextStep(q).l] # 0
Held(q) == {l \in Locks : lockOwner[l] = q}
\* The caller holding the lock q waits for.
Holder(q) == lockOwner[NextStep(q).l]

\* ------------------------------------------------------- should_use_query
\* A statement is its UTF-8 bytes (sql.as_bytes()).
\* "SELECT" "select" "SeLeCt" "RETURNING" "returning" "ReTuRnInG" "SELEC"
\* "RETURNIN", space, line feed, "*", "x", "e-acute" (two bytes) and ")".
SqlTokens ==
    { <<83, 69, 76, 69, 67, 84>>,
      <<115, 101, 108, 101, 99, 116>>,
      <<83, 101, 76, 101, 67, 116>>,
      <<82, 69, 84, 85, 82, 78, 73, 78, 71>>,
      <<114, 101, 116, 117, 114, 110, 105, 110, 103>>,
      <<82, 101, 84, 117, 82, 110, 73, 110, 71>>,
      <<83, 69, 76, 69, 67>>,
      <<82, 69, 84, 85, 82, 78, 73, 78>>,
      <<32>>,
      <<10>>,
      <<42>>,
      <<120>>,
      <<195, 169>>,
      <<41>> }

\* Every concatenation of at most n tokens.
RECURSIVE Concats(_)
Concats(n) ==
    IF n = 0 THEN {<<>>}
    ELSE LET shorter == Concats(n - 1)
         IN  shorter \cup {a \o b : a \in shorter, b \in SqlTokens}

SelectStarFromT == <<83, 69, 76, 69, 67, 84, 32, 42, 32, 70, 82, 79, 77, 32, 116>>
InsertIntoT == <<73, 78, 83, 69, 82, 84, 32, 73, 78, 84, 79, 32, 116, 32, 86, 65, 76, 85, 69, 83, 32, 40, 49, 41>>
InsertReturningId ==
    <<73, 78, 83, 69, 82, 84, 32, 73, 78, 84, 79, 32, 116, 32, 86, 65, 76, 85, 69, 83, 32, 40, 49, 41, 32, 82, 69, 84, 85, 82, 78, 73, 78, 71, 32, 105, 100>>
SelectedFromT == <<83, 69, 76, 69, 67, 84, 69, 68, 32, 70, 82, 79, 77, 32, 116>>
SelectStarNoSpace == <<83, 69, 76, 69, 67, 84, 42, 70, 82, 79, 77, 32, 116>>

\* The statements of the unit tests, and "SELECT*FROM t".
SqlExamples ==
    {SelectStarFromT, InsertIntoT, InsertReturningId, SelectedFromT,
     SelectStarNoSpace}

SqlInputs == Concats(MaxTokens) \cup SqlExamples

\* u8::is_ascii_whitespace: space, tab, line feed, form feed, carriage
\* return.
IsAsciiWhitespace == {32, 9, 10, 12, 13}

\* u8::to_ascii_lowercase of an upper-case letter.
ToAsciiLowercase(t) == IF t \in 65..90 THEN t + 32 ELSE t

\* A condition evaluates to "true" or "false", or panics.
Bool(b) == IF b THEN "true" ELSE "false"
\* a && b: b is evaluated only when a is true.
AndThen(a, b) == IF a = "true" THEN b ELSE a
\* a || b: b is evaluated only when a is false.
OrElse(a, b) == IF a = "false" THEN b ELSE a

\* bytes[i] is one of `set`; indexing outside 0..len-1 panics.
ByteIn(bytes, i, set) ==
    IF i \in 0..(Len(bytes) - 1) THEN Bool(bytes[i + 1] \in set) ELSE "panic"

\* while start < len && bytes[start].is_ascii_whitespace() { start += 1 }
\* The result is {start}, or {} after a panic.
RECURSIVE SkipWhitespace(_, _)
SkipWhitespace(bytes, start) ==
    LET again == AndThen(Bool(start < Len(bytes)),
                         ByteIn(bytes, start, IsAsciiWhitespace))
    IN  IF again = "true" THEN SkipWhitespace(bytes, start + 1)
        ELSE IF again = "false" THEN {start}
        ELSE {}

\* The SELECT test without the test of the byte after the keyword.
StartsWithSelectNoBoundary(bytes, start) ==
    AndThen(Bool(Len(bytes) - start >= 6),
    AndThen(ByteIn(bytes, start, {83, 115}),
    AndThen(ByteIn(bytes, start + 1, {69, 101}),
    AndThen(ByteIn(bytes, start + 2, {76, 108}),
    AndThen(ByteIn(bytes, start + 3, {69, 101}),
    AndThen(ByteIn(bytes, start + 4, {67, 99}),
            ByteIn(bytes, start + 5, {84, 116})))))))

\* The SELECT test without the length test in front of the byte reads.
StartsWithSelectUnguarded(bytes, start) ==
    AndThen(ByteIn(bytes, start, {83, 115}),
    AndThen(ByteIn(bytes, start + 1, {69, 101}),
    AndThen(ByteIn(bytes, start + 2, {76, 108}),
    AndThen(ByteIn(bytes, start + 3, {69, 101}),
    AndThen(ByteIn(bytes, start + 4, {67, 99}),
    AndThen(ByteIn(bytes, start + 5, {84, 116}),
            OrElse(Bool(start + 6 >= Len(bytes)),
                   ByteIn(bytes, start + 6, IsAsciiWhitespace))))))))

\* len - start >= 6 && bytes[start..start+6] is SELECT in either case
\* && (start + 6 >= len || bytes[start + 6].is_ascii_whitespace())
StartsWithSelect(bytes, start) ==
    AndThen(Bool(Len(bytes) - start >= 6),
    AndThen(ByteIn(bytes, start, {83, 115}),
    AndThen(ByteIn(bytes, start + 1, {69, 101}),
    AndThen(ByteIn(bytes, start + 2, {76, 108}),
    AndThen(ByteIn(bytes, start + 3, {69, 101}),
    AndThen(ByteIn(bytes, start + 4, {67, 99}),
    AndThen(ByteIn(bytes, start + 5, {84, 116}),
            OrElse(Bool(start + 6 >= Len(bytes)),
                   ByteIn(bytes, start + 6, IsAsciiWhitespace)))))))))

\* let target = b"RETURNING";
Target == <<82, 69, 84, 85, 82, 78, 73, 78, 71>>

\* for j in 0..9 { if c != t && c != t.to_ascii_lowercase() { break } }
RECURSIVE Matches(_, _, _)
Matches(bytes, i, j) ==
    IF j = Len(Target) THEN "true"
    ELSE LET same == ByteIn(bytes, i + j,
                            {Target[j + 1], ToAsciiLowercase(Target[j + 1])})
         IN  IF same = "true" THEN Matches(bytes, i, j + 1) ELSE same

\* while i <= len - 9 { ...; i += 1 }
RECURSIVE ScanReturning(_, _)
ScanReturning(bytes, i) ==
    IF ~(i <= Len(bytes) - Len(Target)) THEN "false"
    ELSE LET found ==
                 AndThen(OrElse(Bool(i = 0),
                                ByteIn(bytes, i - 1, IsAsciiWhitespace)),
                 AndThen(Matches(bytes, i, 0),
                         OrElse(Bool(i + Len(Target) >= Len(bytes)),
                                ByteIn(bytes, i + Len(Target),
                                       IsAsciiWhitespace))))
         IN  IF found = "false" THEN ScanReturning(bytes, i + 1) ELSE found

\* utils::should_use_query: "true", "false", or "panic".
ShouldUseQuery(bytes) ==
    IF Len(bytes) = 0 THEN "false"
    ELSE LET skipped == SkipWhitespace(bytes, 0)
         IN  IF skipped = {} THEN "panic"
             ELSE LET start == CHOOSE n \in skipped : TRUE
                      select == StartsWithSelect(bytes, start)
                  IN  IF start >= Len(bytes) THEN "false"
                      ELSE IF select # "false" THEN select
                      ELSE IF Len(bytes) >= Len(Target)
                           THEN ScanReturning(bytes, 0)
                      ELSE "false"

\* A caller classifies the statement.
CallShouldUseQuery ==
    /\ output = NoOutput
    /\ input \in SqlInputs
    /\ output' = ShouldUseQuery(input)
    /\ UNCHANGED <<dataVars, lockVars, input>>

\* ---------------------------------------------------- should_use_query_path
\* "EXPLAIN SELECT * FROM users", "WITH a AS (SELECT 1) SELECT * FROM a",
\* "UPDATE t SET a = 1" and "DELETE FROM t".
ExplainSelect ==
    <<69, 88, 80, 76, 65, 73, 78, 32, 83, 69, 76, 69, 67, 84, 32, 42, 32, 70, 82, 79, 77, 32, 117, 115, 101, 114, 115>>
WithSelect ==
    <<87, 73, 84, 72, 32, 97, 32, 65, 83, 32, 40, 83, 69, 76, 69, 67, 84, 32, 49, 41, 32, 83, 69, 76, 69, 67, 84, 32, 42, 32, 70, 82, 79, 77, 32, 97>>
UpdateT ==
    <<85, 80, 68, 65, 84, 69, 32, 116, 32, 83, 69, 84, 32, 97, 32, 61, 32, 49>>
DeleteFromT ==
    <<68, 69, 76, 69, 84, 69, 32, 70, 82, 79, 77, 32, 116>>

\* Statements the adapter routes: those of should_use_query and one of each
\* kind the router's documentation names.
PathInputs == SqlInputs \cup {ExplainSelect, WithSelect, UpdateT, DeleteFromT}

\* should_use_query_path: crate::should_use_query(&sql)
ShouldUseQueryPath(sql) == ShouldUseQuery(sql)

CallShouldUseQueryPath ==
    /\ output = NoOutput
    /\ input \in PathInputs
    /\ output' = ShouldUseQueryPath(input)
    /\ UNCHANGED <<dataVars, lockVars, input>>

\* ------------------------------------------------------ detect_query_type
\* char::is_whitespace on ASCII: tab, line feed, vertical tab, form feed,
\* carriage return, space.
IsWhitespace == {9, 10, 11, 12, 13, 32}

\* str::trim_start
RECURSIVE TrimStart(_)
TrimStart(bytes) ==
    IF Len(bytes) > 0 /\ Head(bytes) \in IsWhitespace
    THEN TrimStart(Tail(bytes))
    ELSE bytes

\* split_whitespace().next().unwrap_or(""): the bytes up to the first
\* whitespace of a string that does not start with one.
RECURSIVE FirstWord(_)
FirstWord(bytes) ==
    IF Len(bytes) = 0 \/ Head(bytes) \in IsWhitespace
    THEN <<>>
    ELSE <<Head(bytes)>> \o FirstWord(Tail(bytes))

\* str::to_uppercase on ASCII text.
ToUppercase(bytes) ==
    [i \in 1..Len(bytes) |-> IF bytes[i] \in 97..122 THEN bytes[i] - 32 ELSE bytes[i]]

\* The arms of detect_query_type's match.
QueryTypeOf ==
    {
      <<<<83, 69, 76, 69, 67, 84>>, "Select">>,
      <<<<73, 78, 83, 69, 82, 84>>, "Insert">>,
      <<<<85, 80, 68, 65, 84, 69>>, "Update">>,
      <<<<68, 69, 76, 69, 84, 69>>, "Delete">>,
      <<<<67, 82, 69, 65, 84, 69>>, "Create">>,
      <<<<68, 82, 79, 80>>, "Drop">>,
      <<<<65, 76, 84, 69, 82>>, "Alter">>,
      <<<<66, 69, 71, 73, 78>>, "Begin">>,
      <<<<67, 79, 77, 77, 73, 84>>, "Commit">>,
      <<<<82, 79, 76, 76, 66, 65, 67, 75>>, "Rollback">>
    }

\* detect_query_type that looks at the first bytes, not at the first word.
DetectQueryTypeByPrefix(query) ==
    LET trimmed == TrimStart(query)
        hits == {a \in QueryTypeOf :
                    /\ Len(a[1]) <= Len(trimmed)
                    /\ ToUppercase(SubSeq(trimmed, 1, Len(a[1]))) = a[1]}
    IN  IF hits = {} THEN "Other" ELSE (CHOOSE a \in hits : TRUE)[2]

\* detect_query_type
DetectQueryType(query) ==
    LET trimmed == TrimStart(query)
        keyword == ToUppercase(FirstWord(trimmed))
        hits == {a \in QueryTypeOf : a[1] = keyword}
    IN  IF hits = {} THEN "Other" ELSE (CHOOSE a \in hits : TRUE)[2]

\* "SELECT" "select" "sElEcT" "SELEC" "T" "x" "INSERT" and space.
LetterTokens ==
    { <<83, 69, 76, 69, 67, 84>>,
      <<115, 101, 108, 101, 99, 116>>,
      <<115, 69, 108, 69, 99, 84>>,
      <<83, 69, 76, 69, 67>>,
      <<84>>,
      <<120>>,
      <<73, 78, 83, 69, 82, 84>>,
      <<32>> }

RECURSIVE LetterConcats(_)
LetterConcats(n) ==
    IF n = 0 THEN {<<>>}
    ELSE LET shorter == LetterConcats(n - 1)
         IN  shorter \cup {a \o b : a \in shorter, b \in LetterTokens}

\* Strings of ASCII letters and spaces, the empty one left out.
LetterInputs == LetterConcats(MaxTokens) \ {<<>>}

\* The body of the property test query_type_consistency: both functions
\* applied to one string.
QueryTypeConsistency ==
    /\ output = NoOutput
    /\ input \in LetterInputs
    /\ output' = ShouldUseQuery(input)
    /\ result' = Outcome("detect_query_type", 0, 0, DetectQueryType(input))
    /\ UNCHANGED <<connVars, txnVars, stmtVars, cursorVars, dbVars, pc, frame,
                   lockVars, input>>

\* ------------------------------------------------ validate_savepoint_name
\* Every name of at most n characters.
RECURSIVE Names(_)
Names(n) ==
    IF n = 0 THEN {<<>>}
    ELSE LET shorter == Names(n - 1)
         IN  shorter \cup {Append(a, c) : a \in shorter, c \in Chars}

\* "1abc", "", "sp one" and "sp_1".
NameExamples ==
    { <<"1", "a", "b", "c">>, <<>>, <<"s", "p", " ", "o", "n", "e">>,
      <<"s", "p", "_", "1">> }

SavepointNames == Names(MaxNameLen) \cup NameExamples

\* A caller validates a savepoint name.
CallValidateSavepointName ==
    /\ output = NoOutput
    /\ input \in SavepointNames
    /\ output' = IF ValidateSavepointName(input) THEN Ok ELSE ErrSavepointName
    /\ UNCHANGED <<dataVars, lockVars, input>>

\* ------------------------------------------------------------------ claims
\* The callers that hold transaction t's entry outside the registry: in a
\* live guard, or moved out of a consumed one.
Holders(t) ==
    {p \in Procs :
        \/ \E g \in frame[p].guard : g.trx_id = t /\ g.entry # {}
        \/ \E e \in frame[p].entry : e.transaction = t}

\* A call that goes through TransactionEntryGuard::take for (t, c).
TakeAttempt(p, t, c) ==
    \/ ExecuteWithTransaction(p, t, c)
    \/ QueryWithTrxArgs(p, t, c)
    \/ \E name \in NameInputs : ValidateSavepointName(name) /\ Savepoint(p, c, t, name)
    \/ DeclareCursorWithContext(p, c, t, "transaction")
    \/ \E param \in ParamInputs : CommitOrRollbackTransaction(p, t, c, param)

C1_AtMostOneHolder ==
    \A t \in TrxIds :
        /\ Cardinality(Holders(t)) <= 1
        /\ Holders(t) # {} => t \notin DOMAIN txnReg

C1_FailFast ==
    \A p \in Procs, t \in TrxIds, c \in ConnIds :
        (Holders(t) # {} /\ TakeAttempt(p, t, c)) =>
            /\ result'.res = ErrTrxNotFound
            /\ result'.id = t
            /\ pc'[p] = "idle"
            /\ frame'[p] = NoFrame
            /\ Holders(t)' = Holders(t)

\* C1: among concurrent guarded calls naming one transaction id at most one
\* holds the entry at any instant, the entry is out of the registry while it
\* is held, and every guarded call arriving meanwhile returns "Transaction
\* not found" at once, without blocking and without getting the handle.
C1_Serialized == []C1_AtMostOneHolder /\ [][C1_FailFast]_vars

\* A guarded call on t has just been refused while another caller holds t.
C1_Witness ==
    \E t \in TrxIds :
        /\ Holders(t) # {}
        /\ result.id = t
        /\ result.res = ErrTrxNotFound
        /\ result.op \in {"execute_with_transaction", "query_with_trx_args", "savepoint",
                          "declare_cursor_with_context", "commit_or_rollback_transaction"}

\* A step in which caller p's live (unconsumed) guard on t goes out of scope.
GuardDropped(p, t) ==
    /\ \E g \in frame[p].guard : g.trx_id = t /\ g.entry # {}
    /\ frame'[p].guard = {}

\* C2: whenever a guard that was not consumed is dropped, on success, on an
\* engine failure or on the failed connection lookup, the transaction id
\* resolves again to an entry owned by the connection given at begin.
C2_GuardRestores ==
    [][\A p \in Procs, t \in TrxIds :
          GuardDropped(p, t) =>
              /\ t \in DOMAIN txnReg'
              /\ txnReg'[t].conn_id = begun[t]
              /\ txnReg'[t].transaction = t]_vars

\* A guarded operation on t failed in the engine and t is registered again.
C2_Witness ==
    \E t \in TrxIds :
        /\ result.id = t
        /\ result.res = ErrEngine
        /\ result.op \in {"execute_with_transaction", "query_with_trx_args", "savepoint",
                          "declare_cursor_with_context"}
        /\ t \in DOMAIN txnReg
        /\ txnReg[t].conn_id = begun[t]

\* C4: a transaction id whose guard commit_or_rollback_transaction has
\* acquired is never registered again, whatever the engine answers.
C4_TerminatedStaysOut == \A t \in terminated : t \notin DOMAIN txnReg

\* commit_or_rollback_transaction has returned the engine's failure for t.
C4_Witness ==
    \E t \in terminated :
        /\ result.op = "commit_or_rollback_transaction"
        /\ result.id = t
        /\ result.res = ErrEngine
        /\ Holders(t) = {}

\* The terms with which a registry rejects an access before the engine is
\* asked anything.
RegistryErrors ==
    {ErrTrxNotFound, ErrTrxOwner, ErrStmtNotFound, ErrStmtOwner, ErrCursorNotFound,
     ErrCursorOwner, ErrInvalidConn, ErrConnNotFound}

\* A call on prepared statement s that supplies connection id c.
StmtAccess(p, c, s) == QueryPrepared(p, c, s) \/ ExecutePrepared(p, c, s)

\* A fetch on cursor k that supplies connection id c.
CursorAccess(p, c, k) ==
    \E n \in 0..(MaxRows + 1), ok \in BOOLEAN : FetchCursor(p, c, k, n, ok)

RegistriesUnchanged == UNCHANGED <<connReg, txnReg, stmtReg, cursorReg>>

C3_Step ==
    \A p \in Procs, c \in ConnIds :
        /\ \A t \in TrxIds :
              (t \in DOMAIN txnReg /\ txnReg[t].conn_id # c /\ TakeAttempt(p, t, c)) =>
                  /\ result'.res \in RegistryErrors
                  /\ pc'[p] = "idle"
                  /\ RegistriesUnchanged
                  /\ txnReg'[t].conn_id = begun[t]
                  /\ GuardTake(txnReg', t, begun[t]).res = Ok
        /\ \A s \in StmtIds :
              (s \in DOMAIN stmtReg /\ stmtReg[s] # c /\ StmtAccess(p, c, s)) =>
                  /\ result'.res \in RegistryErrors
                  /\ RegistriesUnchanged
        /\ \A k \in CursorIds :
              (k \in DOMAIN cursorReg /\ cursorReg[k].conn_id # c /\ CursorAccess(p, c, k)) =>
                  /\ result'.res \in RegistryErrors
                  /\ RegistriesUnchanged
                  /\ cursorReg'[k].position = cursorReg[k].position
                  /\ returned' = returned

\* C3: an access to a registered transaction, statement or cursor with a
\* connection id other than the stored owner is rejected by the registry and
\* changes no registry: the transaction stays registered with the owner set
\* at begin and the owner's next take succeeds, the cursor keeps its position.
C3_MismatchLeavesRegistries == [][C3_Step]_vars

\* A fetch by the wrong connection was just rejected on a cursor that had
\* been advanced, and the cursor still stands where it stood.
C3_Witness ==
    \E k \in DOMAIN cursorReg :
        /\ result.op = "fetch_cursor"
        /\ result.id = k
        /\ result.res = ErrCursorOwner
        /\ cursorReg[k].position > 0
        /\ cursorReg[k].position < Len(cursorReg[k].rows)
        /\ \E t \in DOMAIN txnReg : txnReg[t].conn_id = begun[t]
        /\ DOMAIN stmtReg # {}

C9_Step ==
    \A p \in Procs, c \in ConnIds :
        /\ \A t \in TrxIds :
              (t \in DOMAIN txnReg /\ txnReg[t].conn_id = c /\ TakeAttempt(p, t, c)) =>
                  pc'[p] # "idle"
        /\ (pc[p] = "query_lookup" /\ frame[p].conn = c /\ QueryLookup(p)) =>
              pc'[p] = "query_engine"
        /\ \A s \in StmtIds :
              (s \in DOMAIN stmtReg /\ stmtReg[s] = c /\ StmtAccess(p, c, s)) =>
                  result'.res \notin RegistryErrors
        /\ \A k \in CursorIds :
              (k \in DOMAIN cursorReg /\ cursorReg[k].conn_id = c /\ CursorAccess(p, c, k)) =>
                  result'.res \notin RegistryErrors

\* C9: an access with the owning connection id to a transaction, statement
\* or cursor that is registered (hence not in use) passes every registry
\* check: the take succeeds and the connection lookup made under the guard
\* succeeds, the statement and the cursor calls return no registry error.
C9_OwnerAccessSucceeds == [][C9_Step]_vars

C10_Step ==
    \A p \in Procs, c \in ConnIds :
        /\ \A t \in TrxIds :
              (t \in DOMAIN txnReg /\ txnReg[t].conn_id # c /\ TakeAttempt(p, t, c)) =>
                  (pc'[p] = "idle" /\ result'.res = ErrTrxOwner)
        /\ \A s \in StmtIds :
              (s \in DOMAIN stmtReg /\ stmtReg[s] # c /\ StmtAccess(p, c, s)) =>
                  result'.res = ErrStmtOwner
        /\ \A k \in CursorIds :
              (k \in DOMAIN cursorReg /\ cursorReg[k].conn_id # c /\ CursorAccess(p, c, k)) =>
                  result'.res = ErrCursorOwner

\* C10: an access to a registered transaction, statement or cursor with a
\* connection id other than its owner returns that kind's ownership-mismatch
\* error and no other term.
C10_WrongOwnerIsMismatch == [][C10_Step]_vars

\* Where the slices returned so far from cursor k end: the end of the last
\* one, or row 0 when none has been returned.
ReturnedEnd(k) ==
    IF Len(returned[k]) = 0 THEN 0
    ELSE returned[k][Len(returned[k])].start + Len(returned[k][Len(returned[k])].rows)

\* C6: the slices fetch calls have returned from a cursor are contiguous and
\* in row order (each starts where the one before ended, the first at row
\* 0, each holds the buffered rows of its range) and together they are
\* exactly rows 0..position-1, so a cursor at position N has returned each
\* of its N rows exactly once.
C6_SlicesPartitionRows ==
    \A k \in DOMAIN cursorReg :
        /\ \A i \in 1..Len(returned[k]) :
              /\ returned[k][i].start =
                     (IF i = 1 THEN 0
                      ELSE returned[k][i - 1].start + Len(returned[k][i - 1].rows))
              /\ returned[k][i].rows =
                     SubSeq(cursorReg[k].rows, returned[k][i].start + 1,
                            returned[k][i].start + Len(returned[k][i].rows))
        /\ ReturnedEnd(k) = cursorReg[k].position

C7_Step ==
    \A p \in Procs, k \in CursorIds, n \in 0..(MaxRows + 1), ok \in BOOLEAN :
        (/\ k \in DOMAIN cursorReg
         /\ FetchCursor(p, cursorReg[k].conn_id, k, n, ok)) =>
            LET cursor == cursorReg[k]
                count == Min(n, Len(cursor.rows) - cursor.position)
            IN /\ result'.res = Ok
               /\ result'.val.count = count
               /\ result'.val.rows =
                      SubSeq(cursor.rows, cursor.position + 1, cursor.position + count)
               /\ cursorReg'[k].position = cursor.position + count

\* C7: a fetch by the owner on a registered cursor returns exactly
\* min(max_rows, row_count - position) rows, those starting at the current
\* position, and advances the position by that count; with max_rows = 0 it
\* returns zero rows and leaves the position where it was.
C7_FetchReturnsMin == [][C7_Step]_vars

C8_PositionInRange ==
    \A k \in DOMAIN cursorReg :
        /\ 0 <= cursorReg[k].position
        /\ cursorReg[k].position <= Len(cursorReg[k].rows)

C8_Step ==
    \A k \in DOMAIN cursorReg \cap DOMAIN cursorReg' :
        /\ cursorReg'[k].position >= cursorReg[k].position
        /\ cursorReg'[k].position # cursorReg[k].position =>
              \E p \in Procs : CursorAccess(p, cursorReg[k].conn_id, k)

\* C8: every registered cursor's position is within 0..row_count, no step
\* decreases it, and the only step that changes it is a fetch on that
\* cursor by its owner.
C8_PositionMonotone == []C8_PositionInRange /\ [][C8_Step]_vars

\* A cursor has been advanced twice, from 0 to a middle row and on to its
\* last row.
C8_Witness ==
    \E k \in DOMAIN cursorReg :
        /\ Len(returned[k]) = 2
        /\ returned[k][1].start = 0
        /\ returned[k][2].start > 0
        /\ cursorReg[k].position = Len(cursorReg[k].rows)
        /\ cursorReg[k].position = MaxRows

\* The effects of batch number b that the databases show.
Visible(b) == {e \in UNION {db[c] : c \in ConnIds} : e[1] = b}

\* The batches some caller is still running.
Running == {frame[p].batch.id : p \in Procs} \ {0}

\* C5: a transactional batch is all-or-nothing.  While it runs and after it
\* returned an error (a failed statement i included) none of its effects is
\* visible; after it returned ok every statement's effect is; no batch ever
\* shows a proper part of its effects.
C5_AllOrNothing ==
    /\ \A b \in 1..batchCount :
          \/ Visible(b) = {}
          \/ /\ b \notin Running
             /\ \E n \in 0..MaxBatchLen : Visible(b) = {<<b, i, n>> : i \in 1..n}
    /\ result.op = "execute_transactional_batch" /\ result.id # 0 =>
          IF result.res = Ok
          THEN Visible(result.id) = {<<result.id, i, Len(result.val)>> : i \in 1..Len(result.val)}
          ELSE Visible(result.id) = {}

\* A batch has failed at its second statement, after its first had run, and
\* shows nothing, while an earlier batch that committed shows both effects.
C5_Witness ==
    /\ result.op = "execute_transactional_batch"
    /\ result.res = "Batch statement error"
    /\ result.id = 2
    /\ Visible(2) = {}
    /\ Visible(1) = {<<1, 1, 2>>, <<1, 2, 2>>}

C11_Registered ==
    \A t \in DOMAIN txnReg :
        /\ t \in 1..Len(begun)
        /\ txnReg[t].transaction = t
        /\ txnReg[t].conn_id = begun[t]

C11_Step ==
    /\ DOMAIN txnReg' \ DOMAIN txnReg # {} =>
          \/ \E p \in Procs : pc[p] = "begin_engine" /\ BeginReturn(p, TRUE)
          \/ \E p \in Procs : frame[p].guard # {} /\ frame'[p].guard = {}
    /\ \A p \in Procs :
          (\/ \E c \in ConnIds : BeginTransaction(p, c)
           \/ \E c \in ConnIds, b \in BehaviorInputs : BeginTransactionWithBehavior(p, c, b)
           \/ BeginReturn(p, FALSE)) => UNCHANGED <<txnReg, begun>>

\* C11: every registered transaction entry holds a transaction the engine
\* has started, under the connection it was started on; an identifier
\* enters the registry only in the step in which a begin receives the
\* engine's confirmation (or when a guard puts back an entry it had taken),
\* and a begin refused for an unknown connection, an invalid behaviour or
\* an engine error leaves the registry as it was.
C11_RegisteredAfterStart == []C11_Registered /\ [][C11_Step]_vars

\* A begin on a registered connection has just failed in the engine, and no
\* transaction is or ever was registered.
C11_Witness ==
    /\ result.op = "begin_transaction"
    /\ result.res = ErrEngine
    /\ txnReg = EmptyMap
    /\ begun = <<>>
    /\ connReg # {}

\* --- C12 -------------------------------------------------------------
\* C12: no operation acquires the lock of one registry while it holds the
\* lock of a different registry.
AcquiresRegistry(q) ==
    /\ \/ Acquire(q)
       \/ CriticalSection(q)
    /\ NextStep(q).l \in RegistryLocks
C12_Step ==
    \A q \in Callers :
        AcquiresRegistry(q) => Held(q) \cap RegistryLocks = {}
C12_NoNestedRegistryLocks == [][C12_Step]_vars

\* --- C13 -------------------------------------------------------------
\* q waits, and so do the next n callers along the chain of lock holders.
RECURSIVE Stuck(_, _)
Stuck(q, n) == Waiting(q) /\ (n = 0 \/ Stuck(Holder(q), n - 1))

\* A chain of NumCallers + 1 waiting callers passes twice through one of
\* them: the callers on it wait for one another in a cycle.
Deadlocked == \E q \in Callers : Stuck(q, NumCallers)

\* The order in which the code nests its locks, outermost first.
LockRank(l) ==
    CASE l = CONNECTION_REGISTRY -> 1
      [] l = STMT_REGISTRY -> 2
      [] l[1] = "client" -> 2
      [] l[1] = "conn" -> 3
      [] l = TXN_REGISTRY -> 4
      [] l = CURSOR_REGISTRY -> 4
      [] l[1] = "stmt" -> 4

\* A caller asks only for locks that come later in the order than every
\* lock it holds; this does not depend on the number of callers.
C13_Step ==
    \A q \in Callers :
        (Acquire(q) \/ CriticalSection(q)) =>
            \A h \in Held(q) : LockRank(h) < LockRank(NextStep(q).l)

\* C13: no reachable state has callers waiting cyclically for the registry,
\* connection and statement locks held by one another, and every lock is
\* requested in one global order.
C13_NoDeadlock == []~Deadlocked /\ [][C13_Step]_vars

\* A caller holds CONNECTION_REGISTRY and waits for a lock whose holder is
\* inside an engine call.
C13_Witness ==
    \E q \in Callers :
        /\ Waiting(q)
        /\ CONNECTION_REGISTRY \in Held(q)
        /\ Holder(q) # q
        /\ InEngine(Holder(q))

\* --- C14 -------------------------------------------------------------
\* C14: a registry lock is held only around map operations; no caller holds
\* a registry lock while its engine call is in progress.
C14_NoRegistryLockAcrossEngine ==
    \A q \in Callers : InEngine(q) => Held(q) \cap RegistryLocks = {}

\* --- C15 -------------------------------------------------------------
\* p cannot go on before q releases a lock: q holds the lock p waits for,
\* or the lock waited for by a caller p is behind.
RECURSIVE BlockedBy(_, _, _)
BlockedBy(p, q, n) ==
    /\ n > 0
    /\ Waiting(p)
    /\ \/ Holder(p) = q
       \/ BlockedBy(Holder(p), q, n - 1)

\* Two calls name the same connection, or the same prepared statement.
Related(p, q) ==
    \/ call[p].c = call[q].c
    \/ /\ call[p].op \in StatementOps
       /\ call[q].op \in StatementOps
       /\ call[p].s = call[q].s

\* C15: operations on different resource identifiers do not wait for one
\* another; an engine call in flight for one connection never keeps an
\* operation on an unrelated connection's resources waiting.
C15_UnrelatedDoNotWait ==
    \A p, q \in Callers :
        (BlockedBy(p, q, NumCallers) /\ InEngine(q)) => Related(p, q)

\* --- C16 -------------------------------------------------------------
\* p waits for a lock that q holds across its engine call.
WaitsForEngineOf(p, q) == Waiting(p) /\ Holder(p) = q /\ InEngine(q)

\* C16: an operation on a transaction and an operation issued directly on
\* the transaction's parent connection never wait for a lock held by the
\* other.
C16_TransactionAndConnectionDoNotContend ==
    \A p, q \in Callers :
        ( /\ call[p].op \in TransactionOps
          /\ call[q].op \in ConnectionOps
          /\ call[p].c = call[q].c )
        => (~WaitsForEngineOf(p, q) /\ ~WaitsForEngineOf(q, p))

\* --- C17, C18, C19 ---------------------------------------------------
Select == <<83, 69, 76, 69, 67, 84>>
ToAsciiUppercase(c) == IF c \in 97..122 THEN c - 32 ELSE c

\* The number of whitespace bytes the statement starts with.
LeadingWhitespace(bytes) ==
    CHOOSE k \in 0..Len(bytes) :
        /\ \A i \in 1..k : bytes[i] \in IsAsciiWhitespace
        /\ k = Len(bytes) \/ bytes[k + 1] \notin IsAsciiWhitespace

\* `keyword`, in any letter case, fills bytes[i .. i + Len(keyword) - 1].
KeywordAt(bytes, i, keyword) ==
    /\ i >= 1
    /\ i + Len(keyword) - 1 <= Len(bytes)
    /\ \A j \in 1..Len(keyword) :
           ToAsciiUppercase(bytes[i + j - 1]) = keyword[j]

\* The byte before and the byte after the keyword at i, where there is
\* one, are delimiters.
Delimited(bytes, i, keyword, delimiters) ==
    /\ KeywordAt(bytes, i, keyword)
    /\ i = 1 \/ bytes[i - 1] \in delimiters
    /\ i + Len(keyword) > Len(bytes)
         \/ bytes[i + Len(keyword)] \in delimiters

\* The bytes of a word: ASCII letters, digits, underscore, and the bytes of
\* non-ASCII characters.
WordBytes == (48..57) \cup (65..90) \cup (97..122) \cup {95} \cup (128..255)
NonWordBytes == (0..255) \ WordBytes

\* The statement begins, after whitespace, with the word SELECT.
BeginsWithSelect(bytes) ==
    Delimited(bytes, LeadingWhitespace(bytes) + 1, Select,
              NonWordBytes \cup IsAsciiWhitespace)
\* The statement contains the word RETURNING.
ContainsReturning(bytes) ==
    \E i \in 1..Len(bytes) : Delimited(bytes, i, Target, NonWordBytes)

\* C17: shouldUseQuery never returns false for a statement that begins with
\* SELECT, in any letter case and after optional whitespace, or that
\* contains a word-bounded RETURNING.
C17_NoFalseNegative ==
    (output # NoOutput /\ (BeginsWithSelect(input) \/ ContainsReturning(input)))
        => output # "false"

\* After the leading whitespace the first word is SELECT, followed by
\* whitespace or the end of the input.
FirstWordIsSelect(bytes) ==
    LET first == LeadingWhitespace(bytes) + 1
    IN  /\ KeywordAt(bytes, first, Select)
        /\ first + Len(Select) > Len(bytes)
             \/ bytes[first + Len(Select)] \in IsAsciiWhitespace
\* RETURNING occurs between whitespace or the ends of the string.
ContainsDelimitedReturning(bytes) ==
    \E i \in 1..Len(bytes) : Delimited(bytes, i, Target, IsAsciiWhitespace)

\* C18: shouldUseQuery(sql) is true exactly when the first word is SELECT
\* followed by whitespace or the end of the input, or the string contains a
\* whitespace-delimited RETURNING; in every other case it is false.
C18_ExactlySelectOrReturning ==
    output # NoOutput =>
        output = Bool(FirstWordIsSelect(input)
                      \/ ContainsDelimitedReturning(input))

\* "SELECTED FROM t" has been classified.
C18_Witness == input = SelectedFromT /\ output = "false"

\* C19: shouldUseQuery returns a boolean for every input: it never panics
\* and never indexes outside the bytes, whatever their number and whether or
\* not they belong to multi-byte characters.
C19_NeverPanics == output # NoOutput => output \in {"true", "false"}

\* A statement shorter than SELECT that holds a multi-byte character and
\* starts with whitespace has been classified.
C19_Witness ==
    /\ output \in {"true", "false"}
    /\ Len(input) \in 1..(Len(Select) - 1)
    /\ input[1] \in IsAsciiWhitespace
    /\ \E i \in 1..Len(input) : input[i] >= 128

\* --- C20 -------------------------------------------------------------
\* Non-empty, only ASCII letters, digits and underscore, no leading digit.
IsIdentifier(name) ==
    /\ name # <<>>
    /\ \A i \in DOMAIN name : name[i] \in Letters \cup Digits \cup {"_"}
    /\ Head(name) \notin Digits

\* C20: a savepoint name is accepted if and only if it is non-empty,
\* consists only of ASCII letters, digits and underscore, and does not start
\* with a digit.
C20_AcceptedIffIdentifier ==
    output # NoOutput => (output = Ok <=> IsIdentifier(input))

\* "1abc" has been rejected.
C20_Witness == input = <<"1", "a", "b", "c">> /\ output = ErrSavepointName

\* --- C21 -------------------------------------------------------------
\* C21: a begin with a locking behaviour other than deferred, immediate,
\* exclusive or read_only returns an error and starts no transaction; none
\* is on its way to the engine with a default behaviour in its place.
C21_UnknownBehaviorIsAnError ==
    \A p \in Procs :
        (pc[p] = "begin_engine" /\ frame[p].behavior # "")
            => /\ frame[p].behavior \in Behaviors
               /\ frame[p].trx_behavior = frame[p].behavior

\* --- C22 -------------------------------------------------------------
\* The indices of the statements of batch b whose effects are visible.
VisibleIndices(b) == {e[2] : e \in Visible(b)}

\* The effects of a batch are those of its first statements, up to the one
\* its loop has reached.
C22_Prefix ==
    /\ \A b \in 1..batchCount : \E j \in 0..MaxBatchLen : VisibleIndices(b) = 1..j
    /\ \A p \in Procs :
          pc[p] = "batch_stmt" => VisibleIndices(frame[p].batch.id) = 1..frame[p].batch.i

\* A failure of statement k ends the call with an error and leaves the
\* effects of statements 1..k-1 (and nothing after k); a batch that has
\* returned runs no further statement.
C22_Step ==
    /\ \A p \in Procs :
          (BatchStmt(p, "query_err") \/ BatchStmt(p, "collect_err"))
          => LET b == frame[p].batch
             IN  /\ pc'[p] = "idle"
                 /\ result'.op = "execute_batch"
                 /\ result'.id = b.id
                 /\ result'.res \notin {Ok, "none"}
                 /\ {e \in UNION {db'[c] : c \in ConnIds} : e[1] = b.id} \in
                        { {Effect(b, i) : i \in 1..b.i},
                          {Effect(b, i) : i \in 1..(b.i + 1)} }
    /\ \A b \in 1..batchCount : b \notin Running => Visible(b)' = Visible(b)

C23_Step ==
    \A p \in Procs :
        /\ TBatchStmt(p, "query_err") =>
              /\ pc'[p] = "idle"
              /\ result'.res = "Batch statement error"
        /\ TBatchStmt(p, "rollback_err") =>
              /\ pc'[p] = "idle"
              /\ result'.res \notin {Ok, "Batch statement error"}

\* C23: when a statement of a transactional batch fails the batch rolls
\* back and returns the statement's error; when the rollback fails as well,
\* what it returns is that error with a note about the rollback, not the
\* statement's error alone.
C23_RollbackFailureIsNoted == [][C23_Step]_vars

\* --- C24 -------------------------------------------------------------
\* C24: in every reachable state the owning connection of every registered
\* transaction, statement and cursor is itself in the connection registry.
C24_OwnerIsRegistered ==
    /\ \A t \in DOMAIN txnReg : txnReg[t].conn_id \in connReg
    /\ \A s \in DOMAIN stmtReg : stmtReg[s] \in connReg
    /\ \A k \in DOMAIN cursorReg : cursorReg[k].conn_id \in connReg

\* --- C25 -------------------------------------------------------------
Registries == <<connReg, txnReg, stmtReg, cursorReg>>

MapWithout(new, old, id) ==
    /\ DOMAIN new = DOMAIN old \ {id}
    /\ \A x \in DOMAIN new : new[x] = old[x]

C25_Step ==
    \A p \in Procs :
        /\ \A id \in ConnIds : Close(p, id, "conn_id") =>
              IF id \in connReg
              THEN /\ result'.res = Ok
                   /\ connReg' = connReg \ {id}
                   /\ <<txnReg, stmtReg, cursorReg>>' = <<txnReg, stmtReg, cursorReg>>
              ELSE /\ result'.res = ErrConnNotFound
                   /\ Registries' = Registries
        /\ \A id \in TrxIds : Close(p, id, "trx_id") =>
              IF id \in DOMAIN txnReg
              THEN /\ result'.res = Ok
                   /\ MapWithout(txnReg', txnReg, id)
                   /\ <<connReg, stmtReg, cursorReg>>' = <<connReg, stmtReg, cursorReg>>
              ELSE /\ result'.res = ErrTrxNotFound
                   /\ Registries' = Registries
        /\ \A id \in StmtIds : Close(p, id, "stmt_id") =>
              IF id \in DOMAIN stmtReg
              THEN /\ result'.res = Ok
                   /\ MapWithout(stmtReg', stmtReg, id)
                   /\ <<connReg, txnReg, cursorReg>>' = <<connReg, txnReg, cursorReg>>
              ELSE /\ result'.res = ErrStmtNotFound
                   /\ Registries' = Registries
        /\ \A id \in CursorIds : Close(p, id, "cursor_id") =>
              IF id \in DOMAIN cursorReg
              THEN /\ result'.res = Ok
                   /\ MapWithout(cursorReg', cursorReg, id)
                   /\ <<connReg, txnReg, stmtReg>>' = <<connReg, txnReg, stmtReg>>
              ELSE /\ result'.res = ErrCursorNotFound
                   /\ Registries' = Registries

\* C25: close(id, kind) removes the entry id from the registry of that kind,
\* leaves every other entry of every registry as it was, and returns ok; when
\* the registry has no entry id it returns that kind's not-found error and no
\* registry changes.
C25_CloseRemovesExactlyOne == [][C25_Step]_vars

\* A connection was just closed with success while another connection and a
\* statement, a transaction or a cursor are registered.
C25_Witness ==
    /\ result.op = "close_conn"
    /\ result.res = Ok
    /\ connReg # {}
    /\ DOMAIN stmtReg # {}
    /\ DOMAIN txnReg # {}
    /\ DOMAIN cursorReg # {}

\* --- C26 -------------------------------------------------------------
AtEnd(k) == k \in DOMAIN cursorReg /\ cursorReg[k].position >= Len(cursorReg[k].rows)

C26_Step ==
    \* the column names of a registered cursor never change
    /\ \A k \in DOMAIN cursorReg \cap DOMAIN cursorReg' :
          cursorReg'[k].columns = cursorReg[k].columns
    /\ \A p \in Procs, c \in ConnIds, k \in CursorIds,
          n \in 0..(MaxRows + 1), alloc_ok \in BOOLEAN :
          (k \in DOMAIN cursorReg /\ cursorReg[k].conn_id = c
             /\ FetchCursor(p, c, k, n, alloc_ok)) =>
              \* every fetch that succeeds returns those column names
              /\ result'.res = Ok => result'.val.columns = cursorReg[k].columns
              \* and at the end it succeeds with no rows and stays at the end
              /\ AtEnd(k) =>
                    /\ result'.res = Ok
                    /\ result'.val.rows = <<>>
                    /\ result'.val.count = 0
                    /\ cursorReg' = cursorReg

\* C26: a fetch by the owner on a cursor whose position has reached the
\* number of rows returns ok with zero rows and the cursor's column names,
\* which are the ones every earlier fetch on the cursor returned, and leaves
\* the cursor at the end, so every further fetch does the same.
C26_FetchAtEndIsEmpty == [][C26_Step]_vars

\* An empty fetch at the end has just returned the column names, after a
\* fetch that returned rows.
C26_Witness ==
    /\ result.op = "fetch_cursor"
    /\ result.res = Ok
    /\ result.val.rows = <<>>
    /\ result.val.columns # <<>>
    /\ \E k \in DOMAIN cursorReg :
          /\ result.id = k
          /\ Len(returned[k]) > 0
          /\ cursorReg[k].position = Len(cursorReg[k].rows)

\* --- C27 -------------------------------------------------------------
\* The bindings an invocation with this argument list asks for.
OwnBindings(args) == [i \in Params |-> IF i <= Len(args) THEN args[i] ELSE "unbound"]

C27_OwnBindingsInEffect ==
    /\ \A p \in Procs :
          pc[p] = "stmt_engine" => bindings[frame[p].stmt] = OwnBindings(frame[p].args)
    /\ \A s \in StmtIds : Cardinality(StmtGuard(s)) <= 1

C27_Step ==
    \A s \in StmtIds :
        bindings'[s] # bindings[s] =>
            \E p \in Procs :
                /\ frame[p].stmt = s
                /\ s \in DOMAIN stmtReg => stmtReg[s] = frame[p].conn
                /\ \/ pc[p] = "stmt_lock" /\ pc'[p] = "stmt_reset" /\ bindings'[s] = NoBindings
                   \/ pc[p] = "stmt_reset" /\ pc'[p] = "stmt_engine"

\* C27: a prepared statement's bindings are written only by a call that
\* passed the ownership check, first by its reset and then by its argument
\* list, and while the statement runs for a call its bindings are the ones
\* of that call's argument list: a parameter the list does not cover is
\* unbound, whatever earlier calls bound to it.
C27_ResetBeforeBind == []C27_OwnBindingsInEffect /\ [][C27_Step]_vars

\* A call with one argument is running the statement after a call that bound
\* both parameters.
C27_Witness ==
    \E p \in Procs :
        /\ pc[p] = "stmt_engine"
        /\ Len(frame[p].args) = 1
        /\ bindings[frame[p].stmt][2] = "unbound"
        /\ result.op \in {"query_prepared", "execute_prepared"}
        /\ result.res = Ok
        /\ result.id = frame[p].stmt
        /\ result.val = <<"a", "b">>

\* --- C28 -------------------------------------------------------------
C28_Step ==
    \A p \in Procs :
        \* the declaration takes T only for its owner C
        /\ (pc[p] = "idle" /\ pc'[p] = "cursor_trx_engine") =>
              LET g == CHOOSE g \in frame'[p].guard : TRUE
              IN /\ g.trx_id \in DOMAIN txnReg
                 /\ g.entry = {txnReg[g.trx_id]}
                 /\ txnReg[g.trx_id].conn_id = frame'[p].conn
        \* the query answers, with rows or with an error: T is registered
        \* again with the entry it had, and a failed query registers nothing
        /\ (pc[p] = "cursor_trx_engine" /\ pc'[p] # "cursor_trx_engine") =>
              LET g == TheGuard(p)
              IN /\ g.trx_id \in DOMAIN txnReg'
                 /\ g.entry = {txnReg'[g.trx_id]}
                 /\ txnReg'[g.trx_id].conn_id = frame[p].conn
                 /\ cursorReg' = cursorReg
                 /\ pc'[p] = "cursor_insert" => frame'[p].conn = frame[p].conn
                 /\ pc'[p] = "idle" => result'.res # Ok
        \* the cursor is registered with C as its owner
        /\ (pc[p] = "cursor_insert" /\ pc'[p] # "cursor_insert") =>
              /\ txnReg' = txnReg
              /\ result'.res = Ok
              /\ result'.id \in DOMAIN cursorReg' \ DOMAIN cursorReg
              /\ cursorReg'[result'.id].conn_id = frame[p].conn
        \* and a fetch is refused for any other connection
        /\ \A c \in ConnIds, k \in DOMAIN cursorReg, n \in 0..1 :
              FetchCursor(p, c, k, n, TRUE) =>
                  (result'.res = ErrCursorOwner <=> c # cursorReg[k].conn_id)

\* C28: declare_cursor_with_context against a transaction T takes T only
\* when the caller's connection C owns it; when the query has answered, with
\* rows or with an error, T is registered again with the entry it had; the
\* cursor is registered with C as its conn_id, and fetch_cursor refuses
\* every other connection.
C28_TrxCursorOwnedByConnection == [][C28_Step]_vars

\* A cursor declared against a transaction is registered for the
\* transaction's connection and the transaction is still registered.
C28_Witness ==
    /\ result.op = "declare_cursor_with_context"
    /\ result.res = Ok
    /\ result.id \in DOMAIN cursorReg
    /\ \E t \in DOMAIN txnReg : txnReg[t].conn_id = cursorReg[result.id].conn_id

\* --- C29 -------------------------------------------------------------
C29_Step ==
    \A p \in Procs, c \in ConnIds :
        InterruptConnection(p, c) =>
            /\ Registries' = Registries
            /\ \A q \in Procs : frame'[q].guard = frame[q].guard

\* C29: interrupt_connection leaves every registry as it was: the
\* connections, transactions, statements and cursors registered before it
\* are registered after it with the same entries, and a transaction a call
\* holds in its guard stays with that guard.
C29_InterruptKeepsRegistries == [][C29_Step]_vars

\* An interrupt has just returned ok on a connection that has a
\* transaction, a statement and a cursor registered.
C29_Witness ==
    /\ result.op = "interrupt_connection"
    /\ result.res = Ok
    /\ result.id \in connReg
    /\ \E t \in DOMAIN txnReg : txnReg[t].conn_id = result.id
    /\ \E s \in DOMAIN stmtReg : stmtReg[s] = result.id
    /\ \E k \in DOMAIN cursorReg : cursorReg[k].conn_id = result.id

\* --- C30 -------------------------------------------------------------
\* C30: a caller inside interrupt_connection(C) never waits for a lock that
\* its holder keeps while the engine runs the holder's operation on C.
C30_InterruptDoesNotWait ==
    \A q \in Procs :
        (call[q].op = "interrupt_connection" /\ Waiting(q)) =>
            ~ InEngine(Holder(q))

\* --- C31 -------------------------------------------------------------
\* C31: no connect and no ping is still waiting for the engine after the
\* engine-call deadline of DEFAULT_SYNC_TIMEOUT_SECS seconds: by then the
\* call has returned, with the engine's answer or with a timeout.
C31_ReturnsWithinDeadline ==
    \A p \in Procs :
        pc[p] \in {"connect_engine", "ping_engine"} =>
            frame[p].elapsed <= DEFAULT_SYNC_TIMEOUT_SECS

\* --- C32 -------------------------------------------------------------
Explain == <<69, 88, 80, 76, 65, 73, 78>>
With == <<87, 73, 84, 72>>
Insert == <<73, 78, 83, 69, 82, 84>>
Update == <<85, 80, 68, 65, 84, 69>>
Delete == <<68, 69, 76, 69, 84, 69>>

\* After the leading whitespace the first word is `keyword`, in any letter
\* case, followed by whitespace or the end of the input.
FirstWordIs(bytes, keyword) ==
    LET first == LeadingWhitespace(bytes) + 1
    IN  /\ KeywordAt(bytes, first, keyword)
        /\ first + Len(keyword) > Len(bytes)
             \/ bytes[first + Len(keyword)] \in IsAsciiWhitespace

\* C32: should_use_query_path returns true for a statement whose first word
\* is SELECT, EXPLAIN or WITH and for a statement with a RETURNING clause,
\* and false for an INSERT, UPDATE or DELETE without RETURNING.
C32_RowStatementsTakeQueryPath ==
    output # NoOutput =>
        /\ ((\E k \in {Select, Explain, With} : FirstWordIs(input, k))
               \/ ContainsDelimitedReturning(input))
              => output = "true"
        /\ ((\E k \in {Insert, Update, Delete} : FirstWordIs(input, k))
               /\ ~ ContainsReturning(input))
              => output = "false"

\* --- C33 -------------------------------------------------------------
SavepointCall(p, c, t, name) ==
    \/ Savepoint(p, c, t, name)
    \/ ReleaseSavepoint(p, c, t, name)
    \/ RollbackToSavepoint(p, c, t, name)

C33_Step ==
    \A p \in Procs, c \in ConnIds, t \in TrxIds, name \in NameInputs :
        (~ IsIdentifier(name) /\ SavepointCall(p, c, t, name)) =>
            /\ result'.res = ErrSavepointName
            /\ pc'[p] = "idle"
            /\ frame'[p].guard = {}
            /\ txnReg' = txnReg
            /\ <<begun, terminated, db>>' = <<begun, terminated, db>>

\* C33: savepoint, release_savepoint and rollback_to_savepoint called with
\* a name that is not an identifier return the invalid-name error without
\* taking the transaction's guard and without reaching the engine: the
\* transaction registry and the transaction are as they were.
C33_InvalidNameRejectedFirst == [][C33_Step]_vars

\* A savepoint operation on a registered transaction has just been rejected
\* for its name.
C33_Witness ==
    /\ result.op \in {"savepoint", "release_savepoint", "rollback_to_savepoint"}
    /\ result.res = ErrSavepointName
    /\ result.id \in DOMAIN txnReg

\* --- C34 -------------------------------------------------------------
C34_Step ==
    \A p \in Procs, c \in ConnIds, k \in CursorIds,
       n \in 0..(MaxRows + 1), alloc_ok \in BOOLEAN :
        (FetchCursor(p, c, k, n, alloc_ok) /\ result'.res # Ok) =>
            cursorReg' = cursorReg

\* C34: a fetch_cursor call that returns an error (cursor not found, wrong
\* connection, or a failure while the fetched rows are encoded) leaves every
\* cursor, and so the position of the one it was called on, as it was.
C34_FailedFetchKeepsPosition == [][C34_Step]_vars

\* --- C35 -------------------------------------------------------------
\* The call that returned last was a close of transaction t, an identifier
\* that begin has handed out.
CloseReturned(t) == result.op = "close_trx" /\ result.id = t /\ t \in DOMAIN begun

C35_Absent == \A t \in TrxIds : CloseReturned(t) => t \notin DOMAIN txnReg

C35_Step == \A t \in TrxIds : CloseReturned(t) => t \notin DOMAIN txnReg'

\* C35: once close(t, :trx_id) has returned, with ok or with not found, t is
\* not in the transaction registry and no later step of any call registers
\* it again.
C35_ClosedStaysAbsent == []C35_Absent /\ [][C35_Step]_vars

\* --- C36 -------------------------------------------------------------
\* Some call holds t's entry in a guard that has not been consumed.
InUse(t) == \E p \in Procs : \E g \in frame[p].guard : g.trx_id = t /\ g.entry # {}

C36_RegisteredOrInUse == \A t \in TrxIds : ~ (t \in DOMAIN txnReg /\ InUse(t))

C36_Step ==
    \A t \in TrxIds :
        /\ \A p \in Procs :
              HandleStatusTransaction(p, t) =>
                  /\ result'.res = IF t \in DOMAIN txnReg THEN Ok ELSE ErrTrxNotFound
                  /\ InUse(t) => result'.res = ErrTrxNotFound
                  /\ txnReg' = txnReg
        \* the guard is dropped: t is registered, so the next status is ok
        /\ (InUse(t) /\ ~ InUse(t)') => t \in DOMAIN txnReg'

\* C36: handle_status_transaction(t) returns ok exactly when t is in the
\* registry; a transaction whose entry a guard holds is not in the registry,
\* so the answer is "Transaction not found" for as long as the guard lives,
\* and the drop of the guard registers t again.
C36_StatusOkIffRegistered == []C36_RegisteredOrInUse /\ [][C36_Step]_vars

\* The status of a transaction in use, neither committed, rolled back nor
\* closed, has just been answered with not found.
C36_Witness ==
    /\ result.op = "handle_status_transaction"
    /\ result.res = ErrTrxNotFound
    /\ InUse(result.id)
    /\ result.id \notin terminated

\* --- C37 -------------------------------------------------------------
\* t was begun, is not in the registry and was not committed or rolled back.
Absent(t) == t \in DOMAIN begun /\ t \notin DOMAIN txnReg /\ t \notin terminated

C38_OnlyCommitOrRollback ==
    \A p \in Procs :
        pc[p] = "commit_engine" =>
            /\ frame[p].param \in {"commit", "rollback"}
            /\ frame[p].action = frame[p].param

\* --- C39 -------------------------------------------------------------
\* C39: for every string of ASCII letters and spaces that detect_query_type
\* classifies as Select, should_use_query returns true.
C39_SelectUsesQuery ==
    (output # NoOutput /\ result.res = "Select") => output = "true"

\* " select ": a lower-case select between spaces, classified Select and
\* sent to the query path.
C39_Witness ==
    /\ output = "true"
    /\ result.op = "detect_query_type"
    /\ result.res = "Select"
    /\ input = <<32>> \o <<115, 101, 108, 101, 99, 116>> \o <<32>>

\* ------------------------------------------------------- specifications
\* Empty registries, idle callers, free locks.
InitData ==
    /\ connReg = {}
    /\ connCount = 0
    /\ txnReg = EmptyMap
    /\ begun = <<>>
    /\ terminated = {}
    /\ stmtReg = EmptyMap
    /\ stmtCount = 0
    /\ bindings = [s \in StmtIds |-> NoBindings]
    /\ cursorReg = EmptyMap
    /\ cursorCount = 0
    /\ returned = EmptyMap
    /\ db = [c \in ConnIds |-> {}]
    /\ batchCount = 0
    /\ pc = [p \in Procs |-> "idle"]
    /\ frame = [p \in Procs |-> NoFrame]
    /\ result = Outcome("none", 0, 0, Ok)
    /\ lockOwner = [l \in Locks |-> 0]
    /\ call = [q \in Callers |-> NoCall]

Init ==
    /\ InitData
    /\ input = NoInput
    /\ output = NoOutput

\* The transaction lifecycle: connections, begin, the guarded operations,
\* commit/rollback, close.
NextTxn ==
    \E p \in Procs :
        \/ Connect(p)
        \/ \E id \in ConnIds : Close(p, id, "conn_id")
        \/ \E id \in TrxIds : Close(p, id, "trx_id")
        \/ \E c \in ConnIds : BeginTransaction(p, c)
        \/ \E c \in ConnIds, b \in BehaviorInputs : BeginTransactionWithBehavior(p, c, b)
        \/ \E ok \in BOOLEAN : BeginReturn(p, ok)
        \/ \E t \in TrxIds, c \in ConnIds : ExecuteWithTransaction(p, t, c)
        \/ \E ok \in BOOLEAN : ExecuteReturn(p, ok)
        \/ \E t \in TrxIds, c \in ConnIds : QueryWithTrxArgs(p, t, c)
        \/ QueryLookup(p)
        \/ \E ok \in BOOLEAN : QueryReturn(p, ok)
        \/ \E t \in TrxIds, c \in ConnIds, name \in NameInputs : Savepoint(p, c, t, name)
        \/ \E ok \in BOOLEAN : SavepointReturn(p, ok)
        \/ \E t \in TrxIds, c \in ConnIds : DeclareCursorWithContext(p, c, t, "transaction")
        \/ \E ok \in BOOLEAN : CursorTrxReturn(p, ok, <<"text">>)
        \/ CursorInsert(p)
        \/ \E t \in TrxIds, c \in ConnIds, param \in ParamInputs :
              CommitOrRollbackTransaction(p, t, c, param)
        \/ \E ok \in BOOLEAN : CommitReturn(p, ok)
        \/ \E t \in TrxIds : HandleStatusTransaction(p, t)

Spec == Init /\ [][NextTxn]_vars

\* Cursor pagination: declarations over every small row set, fetches of
\* every page size by every caller, with and without allocation failure.
NextCursor ==
    \E p \in Procs :
        \/ Connect(p)
        \/ \E c \in ConnIds : DeclareCursor(p, c)
        \/ \E c \in ConnIds, id \in ConnIds : DeclareCursorWithContext(p, c, id, "connection")
        \/ \E ok \in BOOLEAN, rows \in RowSeqs(MaxRows) : DeclareReturn(p, ok, rows)
        \/ \E c \in ConnIds, k \in CursorIds, n \in 0..(MaxRows + 1), ok \in BOOLEAN :
               FetchCursor(p, c, k, n, ok)
        \/ \E k \in CursorIds : Close(p, k, "cursor_id")

SpecCursor == Init /\ [][NextCursor]_vars

\* Ownership: the three kinds of owned resource side by side, accessed with
\* every connection id, with connections that can be closed under them.
NextOwner ==
    \E p \in Procs :
        \/ Connect(p)
        \/ \E id \in ConnIds : Close(p, id, "conn_id")
        \/ \E c \in ConnIds : BeginTransaction(p, c)
        \/ BeginReturn(p, TRUE)
        \/ \E t \in TrxIds, c \in ConnIds : ExecuteWithTransaction(p, t, c)
        \/ ExecuteReturn(p, TRUE)
        \/ \E t \in TrxIds, c \in ConnIds : QueryWithTrxArgs(p, t, c)
        \/ QueryLookup(p)
        \/ \E ok \in BOOLEAN : QueryReturn(p, ok)
        \/ \E c \in ConnIds : PrepareStatement(p, c)
        \/ PrepareReturn(p, TRUE)
        \/ \E c \in ConnIds, s \in StmtIds : QueryPrepared(p, c, s)
        \/ \E c \in ConnIds, s \in StmtIds : ExecutePrepared(p, c, s)
        \/ \E c \in ConnIds : DeclareCursor(p, c)
        \/ DeclareReturn(p, TRUE, <<"text", "text">>)
        \/ \E c \in ConnIds, k \in CursorIds : FetchCursor(p, c, k, 1, TRUE)

SpecOwner == Init /\ [][NextOwner]_vars

\* Batches: transactional batches of every small size on every connection,
\* with every engine outcome at every step.
NextBatch ==
    \E p \in Procs :
        \/ Connect(p)
        \/ \E id \in ConnIds : Close(p, id, "conn_id")
        \/ \E c \in ConnIds, n \in 0..MaxBatchLen : ExecuteTransactionalBatch(p, c, n)
        \/ \E ok \in BOOLEAN : TBatchBegin(p, ok)
        \/ \E outcome \in {"ok", "query_err", "rollback_err", "collect_err"} :
              TBatchStmt(p, outcome)
        \/ \E ok \in BOOLEAN : TBatchCommit(p, ok)

SpecBatch == Init /\ [][NextBatch]_vars

\* The locking of every NIF above, run by NumProcs scheduler threads.
NextLock ==
    \E q \in Procs :
        \/ \E op \in LockOps, c \in ConnIds, s \in StmtIds :
              LockCall(q, op, c, s)
        \/ Acquire(q)
        \/ Release(q)
        \/ CriticalSection(q)
        \/ EngineReturn(q)

SpecLock == Init /\ [][NextLock]_vars

\* NumCallers scheduler threads running declare_cursor, query_with_trx_args
\* and query_prepared.
NextConvoy ==
    \E q \in Callers :
        \/ \E op \in ConvoyOps, c \in ConnIds, s \in StmtIds :
              LockCall(q, op, c, s)
        \/ Acquire(q)
        \/ Release(q)
        \/ CriticalSection(q)
        \/ EngineReturn(q)

SpecConvoy == Init /\ [][NextConvoy]_vars

\* should_use_query applied to one statement out of SqlInputs.
InitClassifier ==
    /\ InitData
    /\ input \in SqlInputs
    /\ output = NoOutput

NextClassifier == CallShouldUseQuery

SpecClassifier == InitClassifier /\ [][NextClassifier]_vars

\* validate_savepoint_name applied to one name out of SavepointNames.
InitSavepointName ==
    /\ InitData
    /\ input \in SavepointNames
    /\ output = NoOutput

NextSavepointName == CallValidateSavepointName

SpecSavepointName == InitSavepointName /\ [][NextSavepointName]_vars

\* Beginning transactions: both revisions of begin_transaction_with_behavior.
NextBegin ==
    \E p \in Procs :
        \/ Connect(p)
        \/ \E id \in ConnIds : Close(p, id, "conn_id")
        \/ \E c \in ConnIds : BeginTransaction(p, c)
        \/ \E c \in ConnIds, b \in BehaviorInputs :
              BeginTransactionWithBehavior(p, c, b)
        \/ \E c \in ConnIds, b \in BehaviorInputs :
              LibBeginTransactionWithBehavior(p, c, b)
        \/ \E ok \in BOOLEAN : BeginReturn(p, ok)

SpecBegin == Init /\ [][NextBegin]_vars

\* Independent batches.
NextIndependentBatch ==
    \E p \in Procs :
        \/ Connect(p)
        \/ \E id \in ConnIds : Close(p, id, "conn_id")
        \/ \E c \in ConnIds, n \in 0..MaxBatchLen : ExecuteBatch(p, c, n)
        \/ \E outcome \in {"ok", "query_err", "collect_err"} : BatchStmt(p, outcome)
        \/ BatchDone(p)

SpecIndependentBatch == Init /\ [][NextIndependentBatch]_vars

\* close of every kind among the calls that register something.
NextClose ==
    \E p \in Procs :
        \/ Connect(p)
        \/ \E c \in ConnIds : BeginTransaction(p, c)
        \/ BeginReturn(p, TRUE)
        \/ \E c \in ConnIds : PrepareStatement(p, c)
        \/ PrepareReturn(p, TRUE)
        \/ \E c \in ConnIds : DeclareCursor(p, c)
        \/ DeclareReturn(p, TRUE, <<"text">>)
        \/ \E id \in ConnIds : Close(p, id, "conn_id")
        \/ \E id \in TrxIds : Close(p, id, "trx_id")
        \/ \E id \in StmtIds : Close(p, id, "stmt_id")
        \/ \E id \in CursorIds : Close(p, id, "cursor_id")
        \/ \E id \in ConnIds : Close(p, id, "other")

SpecClose == Init /\ [][NextClose]_vars
\* Prepared statements run with argument lists by two callers.
NextPrepared ==
    \E p \in Procs :
        \/ Connect(p)
        \/ \E c \in ConnIds : PrepareStatement(p, c)
        \/ PrepareReturn(p, TRUE)
        \/ \E c \in ConnIds, s \in StmtIds, args \in ArgLists : QueryPreparedArgs(p, c, s, args)
        \/ \E c \in ConnIds, s \in StmtIds, args \in ArgLists : ExecutePreparedArgs(p, c, s, args)
        \/ StmtReset(p)
        \/ StmtRun(p)
        \/ \E ok \in BOOLEAN : StmtReturn(p, ok)
        \/ \E s \in StmtIds : Close(p, s, "stmt_id")

SpecPrepared == Init /\ [][NextPrepared]_vars
\* Cursors declared against a transaction, then fetched.
NextTrxCursor ==
    \E p \in Procs :
        \/ Connect(p)
        \/ \E c \in ConnIds : BeginTransaction(p, c)
        \/ BeginReturn(p, TRUE)
        \/ \E t \in TrxIds, c \in ConnIds : DeclareCursorWithContext(p, c, t, "transaction")
        \/ \E ok \in BOOLEAN, rows \in RowSeqs(1) : CursorTrxReturn(p, ok, rows)
        \/ CursorInsert(p)
        \/ \E c \in ConnIds, k \in CursorIds, n \in 0..1 : FetchCursor(p, c, k, n, TRUE)
        \/ \E t \in TrxIds : Close(p, t, "trx_id")

SpecTrxCursor == Init /\ [][NextTrxCursor]_vars
\* Interrupts among the calls that register and use resources.
NextInterrupt ==
    \E p \in Procs :
        \/ Connect(p)
        \/ \E c \in ConnIds : BeginTransaction(p, c)
        \/ BeginReturn(p, TRUE)
        \/ \E t \in TrxIds, c \in ConnIds : ExecuteWithTransaction(p, t, c)
        \/ \E ok \in BOOLEAN : ExecuteReturn(p, ok)
        \/ \E c \in ConnIds : PrepareStatement(p, c)
        \/ PrepareReturn(p, TRUE)
        \/ \E c \in ConnIds : DeclareCursor(p, c)
        \/ DeclareReturn(p, TRUE, <<"text">>)
        \/ \E c \in ConnIds : InterruptConnection(p, c)

SpecInterrupt == Init /\ [][NextInterrupt]_vars

\* Scheduler threads running query_args and interrupt_connection.
NextInterruptLocks ==
    \E q \in Procs :
        \/ \E op \in InterruptOps, c \in ConnIds, s \in StmtIds :
              LockCall(q, op, c, s)
        \/ Acquire(q)
        \/ Release(q)
        \/ CriticalSection(q)
        \/ EngineReturn(q)
        \/ Deliver(q)

SpecInterruptLocks == Init /\ [][NextInterruptLocks]_vars
\* connect and ping with the seconds their engine calls take.
NextDeadline ==
    \E p \in Procs :
        \/ ConnectEngine(p)
        \/ \E ok \in BOOLEAN : ConnectReturn(p, ok)
        \/ ConnectTimeout(p)
        \/ \E c \in ConnIds : Ping(p, c)
        \/ \E ok \in BOOLEAN : PingReturn(p, ok)
        \/ EngineWait(p)

SpecDeadline == Init /\ [][NextDeadline]_vars
\* should_use_query_path applied to one statement.
InitQueryPath ==
    /\ InitData
    /\ input \in PathInputs
    /\ output = NoOutput

NextQueryPath == CallShouldUseQueryPath

SpecQueryPath == InitQueryPath /\ [][NextQueryPath]_vars
\* The three savepoint operations on transactions of two connections.
NextSavepoint ==
    \E p \in Procs :
        \/ Connect(p)
        \/ \E c \in ConnIds : BeginTransaction(p, c)
        \/ BeginReturn(p, TRUE)
        \/ \E t \in TrxIds, c \in ConnIds, name \in NameInputs : Savepoint(p, c, t, name)
        \/ \E t \in TrxIds, c \in ConnIds, name \in NameInputs : ReleaseSavepoint(p, c, t, name)
        \/ \E t \in TrxIds, c \in ConnIds, name \in NameInputs :
              RollbackToSavepoint(p, c, t, name)
        \/ \E ok \in BOOLEAN : SavepointReturn(p, ok)

SpecSavepoint == Init /\ [][NextSavepoint]_vars
\* The operations that take a transaction's guard; no close.
NextInUse ==
    \E p \in Procs :
        \/ Connect(p)
        \/ \E c \in ConnIds : BeginTransaction(p, c)
        \/ \E ok \in BOOLEAN : BeginReturn(p, ok)
        \/ \E t \in TrxIds, c \in ConnIds : ExecuteWithTransaction(p, t, c)
        \/ \E ok \in BOOLEAN : ExecuteReturn(p, ok)
        \/ \E t \in TrxIds, c \in ConnIds : QueryWithTrxArgs(p, t, c)
        \/ QueryLookup(p)
        \/ \E ok \in BOOLEAN : QueryReturn(p, ok)
        \/ \E t \in TrxIds, c \in ConnIds, name \in NameInputs : Savepoint(p, c, t, name)
        \/ \E ok \in BOOLEAN : SavepointReturn(p, ok)
        \/ \E t \in TrxIds, c \in ConnIds : DeclareCursorWithContext(p, c, t, "transaction")
        \/ \E ok \in BOOLEAN : CursorTrxReturn(p, ok, <<"text">>)
        \/ CursorInsert(p)
        \/ \E t \in TrxIds, c \in ConnIds, param \in ParamInputs :
              CommitOrRollbackTransaction(p, t, c, param)
        \/ \E ok \in BOOLEAN : CommitReturn(p, ok)

\* A call that holds a guard keeps running, and the engine call it makes
\* under the guard returns.
GuardedCallGoesOn(p) ==
    \/ \E ok \in BOOLEAN : ExecuteReturn(p, ok)
    \/ QueryLookup(p)
    \/ \E ok \in BOOLEAN : QueryReturn(p, ok)
    \/ \E ok \in BOOLEAN : SavepointReturn(p, ok)
    \/ \E ok \in BOOLEAN : CursorTrxReturn(p, ok, <<"text">>)

SpecInUse ==
    /\ Init
    /\ [][NextInUse]_vars
    /\ \A p \in Procs : WF_vars(GuardedCallGoesOn(p))
\* detect_query_type and should_use_query applied to one string.
InitQueryType ==
    /\ InitData
    /\ input \in LetterInputs
    /\ output = NoOutput

NextQueryType == QueryTypeConsistency

SpecQueryType == InitQueryType /\ [][NextQueryType]_vars
====
